---- MODULE Spec2Model ----
(***************************************************************************)
(* Familia AI: the authenticated chat/session flow of the two backends.    *)
(*   - the Cloudflare Worker (src/unnamed/part_000, Supabase storage)      *)
(*   - the Express server (src/server.ts, SQLite storage)                  *)
(* A run models one deployment: `backend` says which of the two programs   *)
(* is serving.  Strings are sequences of one-character strings, so that    *)
(* toLowerCase / includes / substring are computed, not assumed.           *)
(***************************************************************************)
EXTENDS Integers, Sequences, FiniteSets, TLC

----------------------------------------------------------------------------
(* Bounds *)

MaxTicks    == 2    \* times the clock advances per run
MaxSessions == 2    \* sessions issued per run
MaxCalls    == 2    \* chat calls accepted per run
MaxDaily    == 2    \* daily_messages of the users that have limits
MaxFaults   == 1    \* storage / AI provider failures per run
MaxProfileRows == 1 \* rows of user_profiles and user_settings together
MaxAuthCalls == 1   \* chat calls accepted among the routes of AuthSpec
MaxAttempts == 2    \* invocations of handleSendMessage per run
MaxWords    == 3    \* words of a message given to the mood scorer
MaxCodes    == 2    \* rows of email_verifications at a time, and distinct codes

----------------------------------------------------------------------------
(* Strings *)

UpperChars == <<"A", "B", "C", "D", "E", "F", "G", "H", "I", "J", "K", "L", "M",
                "N", "O", "P", "Q", "R", "S", "T", "U", "V", "W", "X", "Y", "Z">>
LowerChars == <<"a", "b", "c", "d", "e", "f", "g", "h", "i", "j", "k", "l", "m",
                "n", "o", "p", "q", "r", "s", "t", "u", "v", "w", "x", "y", "z">>

LowerChar(c) ==
    IF \E i \in 1..Len(UpperChars) : UpperChars[i] = c
    THEN LowerChars[CHOOSE i \in 1..Len(UpperChars) : UpperChars[i] = c]
    ELSE c

\* String.prototype.toLowerCase
toLowerCase(s) == [i \in 1..Len(s) |-> LowerChar(s[i])]

\* String.prototype.includes
includes(s, t) == \E i \in 0..(Len(s) - Len(t)) : SubSeq(s, i + 1, i + Len(t)) = t

\* String.prototype.substring(0, n)
substring(s, n) == SubSeq(s, 1, IF Len(s) < n THEN Len(s) ELSE n)

MsgHello == <<"H", "e", "l", "l", "o">>
MsgSpam  == <<"t", "h", "i", "s", " ", "i", "s", " ", "s", "p", "a", "m", " ",
              "c", "o", "n", "t", "e", "n", "t">>
MsgShout == <<"S", "P", "a", "M", "!">>
MsgEmpty == <<>>
MsgGame  == <<"j", "u", "e", "g", "o", " ", "g", "e", "n", "i", "a", "l">>
MsgBad   == <<"m", "a", "l", " ", "d", "i", "a">>

\* request bodies the clients send
Messages == {MsgHello, MsgSpam, MsgShout, MsgEmpty}

\* request bodies with a mood and a topic, and with a mood alone
SideMessages == {MsgGame, MsgBad}

\* the words the scored messages are made of: lexicon words, one of them
\* ("mal") inside another ("malo"), and a word of neither list
MoodVocabulary == {<<"f", "e", "l", "i", "z">>, <<"b", "i", "e", "n">>,
                   <<"m", "a", "l">>, <<"m", "a", "l", "o">>, <<"h", "o", "y">>}

RECURSIVE JoinWords(_)
\* words.join(' ')
JoinWords(ws) ==
    IF Len(ws) = 1 THEN ws[1] ELSE ws[1] \o <<" ">> \o JoinWords(Tail(ws))

\* the messages of one to MaxWords words
MoodMessages ==
    {JoinWords(ws) : ws \in UNION {[1..n -> MoodVocabulary] : n \in 1..MaxWords}}

AiClaro == <<"C", "l", "a", "r", "o">>

\* texts the AI provider answers with
AiTexts == {AiClaro}

\* 'Lo siento, no pude procesar tu mensaje.'
FallbackText == <<"L", "o", " ", "s", "i", "e", "n", "t", "o", ",", " ", "n", "o",
                  " ", "p", "u", "d", "e", " ", "p", "r", "o", "c", "e", "s", "a",
                  "r", " ", "t", "u", " ", "m", "e", "n", "s", "a", "j", "e", ".">>

NoText == <<"-">>

----------------------------------------------------------------------------
(* Identifiers *)

Users    == {"u1", "u2"}
NoUser   == "nobody"

NoToken    == -1     \* header X-Family-Token absent
BogusToken == 0      \* a token no session was ever issued with
NoThread   == 0      \* threadId absent from the body
Missing    == -1     \* a field the limits object lacks (undefined)
NoLimits   == [daily_messages |-> Missing, used_today |-> Missing]   \* user row without a limits object

SessionHours == 24
TitleLen     == 50
XTitleLen    == 30

\* a session that lives one hour
ExpiresAtOneHour(t) == t + 1

\* setHours(getHours() + 24)
ExpiresAt(t) == t + SessionHours

\* the clock advances by a little more than half a session lifetime; the
\* chat flow is explored over two instants
TickStep    == SessionHours \div 2 + 1
MaxTime     == MaxTicks * TickStep
\* the clock of the registration flow runs until a code issued at the start
\* has expired
CodeMaxTime == 2 * TickStep
ChatMaxTime == TickStep

----------------------------------------------------------------------------
(* Worker: pure helpers of src/unnamed/part_000 *)

blockedTerms == << <<"s", "p", "a", "m">>,
                   <<"i", "n", "a", "p", "p", "r", "o", "p", "r", "i", "a", "t", "e">> >>

\* the comparison without toLowerCase
checkContentModerationCaseSensitive(message) ==
    ~ \E k \in 1..Len(blockedTerms) : includes(message, blockedTerms[k])

\* true when the message may pass
checkContentModeration(message) ==
    ~ \E k \in 1..Len(blockedTerms) : includes(toLowerCase(message), blockedTerms[k])

\* checkContentModeration, tabulated over the request bodies
Moderation == [m \in Messages \cup SideMessages |-> checkContentModeration(m)]

\* the comparison with <= for <
validateUserLimitsOffByOne(user, limits) ==
    IF user = NoUser \/ limits = NoLimits
    THEN FALSE
    ELSE limits.used_today <= limits.daily_messages

\* the fields compared as numbers although one is missing
validateUserLimitsNumeric(user, limits) ==
    IF user = NoUser
    THEN FALSE
    ELSE limits.used_today < limits.daily_messages

\* a < b of the script: false when either side is undefined
Less(a, b) == a # Missing /\ b # Missing /\ a < b

validateUserLimits(user, limits) ==
    IF user = NoUser \/ limits = NoLimits
    THEN FALSE
    ELSE Less(limits.used_today, limits.daily_messages)

\* the request-scoped user object after the increment
updateMessageCount(limits) ==
    IF limits = NoLimits
    THEN limits
    ELSE [limits EXCEPT !.used_today = limits.used_today + 1]

\* env.ADMIN_EMAIL of the deployment
ADMIN_EMAIL == "u2"

\* user.role === 'admin' || user.email === env.ADMIN_EMAIL
isAdmin(user) == user.role = "admin" \/ user.email = ADMIN_EMAIL

\* user.role === 'parent' || user.role === 'admin'; the admin gate does not call it
isParent(user) == user.role = "parent" \/ user.role = "admin"

----------------------------------------------------------------------------
(* Worker: side signals of a chat turn *)

positiveWords ==
    << <<"f", "e", "l", "i", "z">>,
       <<"c", "o", "n", "t", "e", "n", "t", "o">>,
       <<"a", "l", "e", "g", "r", "e">>,
       <<"b", "i", "e", "n">>,
       <<"g", "e", "n", "i", "a", "l">>,
       <<"e", "x", "c", "e", "l", "e", "n", "t", "e">>,
       <<"m", "a", "r", "a", "v", "i", "l", "l", "o", "s", "o">> >>

negativeWords ==
    << <<"t", "r", "i", "s", "t", "e">>,
       <<"e", "n", "o", "j", "a", "d", "o">>,
       <<"m", "a", "l">>,
       <<"h", "o", "r", "r", "i", "b", "l", "e">>,
       <<"t", "e", "r", "r", "i", "b", "l", "e">>,
       <<"o", "d", "i", "o">>,
       <<"m", "a", "l", "o">> >>

\* words.filter(word => messageLower.includes(word)).length
Hits(words, message) ==
    Cardinality({k \in 1..Len(words) : includes(toLowerCase(message), words[k])})

\* message.split(' ').length
SplitLength(message) == Cardinality({i \in 1..Len(message) : message[i] = " "}) + 1

NoMood == [type |-> "none", score |-> <<0, 1>>, confidence |-> 0]

\* the score is the fraction <<numerator, denominator>>; confidence is in tenths
detectMood(message) ==
    LET positiveCount == Hits(positiveWords, message)
        negativeCount == Hits(negativeWords, message)
    IN IF positiveCount > negativeCount
       THEN [type |-> "positive", score |-> <<positiveCount, SplitLength(message)>>,
             confidence |-> 8]
       ELSE IF negativeCount > positiveCount
       THEN [type |-> "negative", score |-> <<0 - negativeCount, SplitLength(message)>>,
             confidence |-> 8]
       ELSE NoMood

\* topicKeywords, in the order of Object.entries
topicKeywords ==
    << [topic |-> "tecnología",
        keywords |-> << <<"c", "o", "m", "p", "u", "t", "a", "d", "o", "r", "a">>,
                      <<"p", "r", "o", "g", "r", "a", "m", "a", "c", "i", "ó", "n">>,
                      <<"i", "n", "t", "e", "r", "n", "e", "t">>,
                      <<"s", "o", "f", "t", "w", "a", "r", "e">>,
                      <<"h", "a", "r", "d", "w", "a", "r", "e">>,
                      <<"a", "p", "p">>,
                      <<"a", "p", "l", "i", "c", "a", "c", "i", "ó", "n">> >>],
       [topic |-> "educación",
        keywords |-> << <<"e", "s", "c", "u", "e", "l", "a">>,
                      <<"c", "l", "a", "s", "e">>,
                      <<"e", "s", "t", "u", "d", "i", "o">>,
                      <<"l", "i", "b", "r", "o">>,
                      <<"p", "r", "o", "f", "e", "s", "o", "r">>,
                      <<"t", "a", "r", "e", "a">>,
                      <<"e", "x", "a", "m", "e", "n">> >>],
       [topic |-> "familia",
        keywords |-> << <<"p", "a", "p", "á">>,
                      <<"m", "a", "m", "á">>,
                      <<"h", "e", "r", "m", "a", "n", "o">>,
                      <<"h", "e", "r", "m", "a", "n", "a">>,
                      <<"a", "b", "u", "e", "l", "o">>,
                      <<"a", "b", "u", "e", "l", "a">>,
                      <<"f", "a", "m", "i", "l", "i", "a">> >>],
       [topic |-> "juegos",
        keywords |-> << <<"j", "u", "g", "a", "r">>,
                      <<"v", "i", "d", "e", "o", "j", "u", "e", "g", "o">>,
                      <<"j", "u", "e", "g", "o">>,
                      <<"c", "o", "n", "s", "o", "l", "a">>,
                      <<"j", "u", "g", "u", "e", "t", "e", "s">> >>],
       [topic |-> "deportes",
        keywords |-> << <<"f", "ú", "t", "b", "o", "l">>,
                      <<"b", "a", "l", "o", "n", "c", "e", "s", "t", "o">>,
                      <<"t", "e", "n", "i", "s">>,
                      <<"d", "e", "p", "o", "r", "t", "e">>,
                      <<"e", "n", "t", "r", "e", "n", "a", "m", "i", "e", "n", "t", "o">>,
                      <<"e", "q", "u", "i", "p", "o">> >>] >>

\* the topics with a keyword in the message
detectTopics(message) ==
    {topicKeywords[k].topic : k \in
        {j \in 1..Len(topicKeywords) :
            \E w \in 1..Len(topicKeywords[j].keywords) :
                includes(toLowerCase(message), topicKeywords[j].keywords[w])}}

----------------------------------------------------------------------------
(* Express: constants of src/server.ts *)

\* the seed of blocked_terms; no route changes the table
seedBlocked == << <<"s", "p", "a", "m">>,
                  <<"m", "a", "l", "w", "a", "r", "e">>,
                  <<"o", "f", "f", "e", "n", "s", "i", "v", "e">> >>

\* blocked.some(b => message.toLowerCase().includes(b.term.toLowerCase()))
XBlocked(message) ==
    \E k \in 1..Len(seedBlocked) :
        includes(toLowerCase(message), toLowerCase(seedBlocked[k]))

\* XBlocked, tabulated over the request bodies
XModeration == [m \in Messages |-> XBlocked(m)]

\* the user the seed inserts with ADMIN_EMAIL
adminEmail == "u2"

\* an x-user-email that matches no user row
Stranger == "stranger"

PublicPaths == {"/api/health", "/api/test-supabase", "/api/register",
                "/api/verify-email", "/api/resend-verification", "/api/login"}

Paths == PublicPaths \cup {"/api/chat", "/api/chat/threads", "/api/chat/thread/",
                           "/api/profile", "/api/settings", "/api/admin/users"}

Methods == {"OPTIONS", "GET", "POST", "PUT"}

\* the if-chain of fetch: which block answers a request
Route(method, path) ==
    IF method = "OPTIONS" THEN "options"
    ELSE IF path = "/api/health" /\ method = "GET" THEN "health"
    ELSE IF path = "/api/test-supabase" /\ method = "GET" THEN "test-supabase"
    ELSE IF path = "/api/register" /\ method = "POST" THEN "register"
    ELSE IF path = "/api/verify-email" /\ method = "POST" THEN "verify-email"
    ELSE IF path = "/api/resend-verification" /\ method = "POST" THEN "resend-verification"
    ELSE IF path = "/api/login" /\ method = "POST" THEN "login"
    ELSE "protected"

\* the if-chain after the token gate
ProtectedRoute(method, path) ==
    IF path = "/api/chat" /\ method = "POST" THEN "chat"
    ELSE IF path = "/api/chat/threads" /\ method = "GET" THEN "threads"
    ELSE IF path = "/api/chat/thread/" /\ method = "GET" THEN "thread"
    ELSE IF path = "/api/profile" /\ method = "GET" THEN "profile-get"
    ELSE IF path = "/api/profile" /\ method = "PUT" THEN "profile-put"
    ELSE IF path = "/api/settings" /\ method = "GET" THEN "settings-get"
    ELSE IF path = "/api/settings" /\ method = "PUT" THEN "settings-put"
    ELSE "admin"

AdminPaths == {"/api/admin/dashboard", "/api/admin/users", "/api/admin/user/",
               "/api/admin/messages", "/api/admin/stats"}

AdminMethods == {"GET", "PUT", "DELETE"}

\* the if-chain after the admin gate; "none" falls through to the 404
AdminRoute(method, path) ==
    IF path = "/api/admin/dashboard" /\ method = "GET" THEN "dashboard"
    ELSE IF path = "/api/admin/users" /\ method = "GET" THEN "users"
    ELSE IF path = "/api/admin/user/" /\ method = "PUT" THEN "user-put"
    ELSE IF path = "/api/admin/user/" /\ method = "DELETE" THEN "user-delete"
    ELSE IF path = "/api/admin/messages" /\ method = "GET" THEN "messages"
    ELSE "none"

----------------------------------------------------------------------------
(* State *)

VARIABLES
    backend,     \* "worker" | "express": the program that is deployed
    now,         \* the clock, in hours
    users,       \* users table, id -> row; status "absent": no row with this id
    sessions,    \* Worker: sessions table, set of rows
    threads,     \* chat_threads in insertion order
    messages,    \* chat_messages in insertion order
    profiles,    \* Worker: the (table, user) rows of user_profiles / user_settings
    req,         \* chat calls in flight, slot -> position and locals
    calls,       \* chat calls accepted so far
    faults,      \* failures of the storage or the AI provider so far
    last,        \* the response on its way to the client (NoResp if none)
    hist,        \* per user: successful chat calls, overlaps, latest side writes
    client,      \* the browser: the api object, localStorage, and the last request sent
    moods,       \* Worker: user_mood_tracking in insertion order
    topics,      \* Worker: topic_evolution, one row per topic
    verifications \* Worker: email_verifications, set of rows

vars == <<backend, now, users, sessions, threads, messages, profiles, req, calls,
          faults, last, hist, client, moods, topics, verifications>>

Slots == {1, 2}

IdleReq == [pc |-> "idle", token |-> NoToken, user |-> NoUser, limits |-> NoLimits,
            msg |-> MsgEmpty, threadId |-> NoThread, thread |-> NoThread,
            ai |-> NoText, start |-> 0, call |-> 0, created |-> FALSE, side |-> 0,
            reply |-> "-"]

NoResp == [backend |-> "none", method |-> "-", path |-> "-", token |-> NoToken,
           status |-> 0, user |-> NoUser, touched |-> {}, msg |-> MsgEmpty,
           threadId |-> NoThread, thread |-> NoThread, response |-> NoText,
           call |-> 0, limits |-> NoLimits, start |-> 0, created |-> FALSE,
           rows |-> <<>>, issued |-> NoToken, error |-> "none", side |-> 0,
           reply |-> "-"]

\* a browser that has never logged in.  token: api.token; familia_token and
\* user_data: the localStorage items; user, currentChat: state.user and
\* state.currentChat; form2FA: the 2FA form is shown; issued: the token of the
\* last successful login (NoToken after logout); endpoint, header: the request
\* last sent and its X-Family-Token
\* the browser: api.token, localStorage (familia_token, user_data), state
\* (user, currentChat, isLoading), the number of message elements in
\* chatHistory (shown) and the invocations of handleSendMessage that have
\* not returned (sends); issued, endpoint, header, attempts and input
\* record what happened
NoClient == [token |-> NoToken, familia_token |-> NoToken, user_data |-> NoUser,
             user |-> NoUser, currentChat |-> NoThread, form2FA |-> FALSE,
             issued |-> NoToken, endpoint |-> "-", header |-> NoToken,
             isLoading |-> FALSE, shown |-> 0, sends |-> <<>>,
             attempts |-> 0, input |-> <<>>]

Limits(used) == [daily_messages |-> MaxDaily, used_today |-> used]

\* u1 one message below the cap, u2 fresh
LimitsOpen == [u \in Users |-> IF u = "u1" THEN Limits(MaxDaily - 1) ELSE Limits(0)]

\* u1 without a limits object, u2 at the cap
LimitsShut == [u \in Users |-> IF u = "u1" THEN NoLimits ELSE Limits(MaxDaily)]

\* u1 without a limits object, or with one that lacks a field; u2 fresh
LimitsLacking ==
    {[u \in Users |-> IF u = "u1" THEN l ELSE Limits(0)] :
        l \in {NoLimits, [Limits(0) EXCEPT !.used_today = Missing],
                [Limits(0) EXCEPT !.daily_messages = Missing]}}

UserRows(choices) ==
    {[u \in Users |-> [role |-> IF u = adminEmail THEN "admin" ELSE "child",
                       email |-> u, status |-> "active", limits |-> l[u],
                       email_verified |-> TRUE, last_login |-> 0]] : l \in choices}

\* the roles the two users can have been given: u1 any role, u2 (whose email
\* is ADMIN_EMAIL) admin or child
RoleRows ==
    {[u \in Users |-> [role |-> ro[u], email |-> u, status |-> "active",
                       limits |-> LimitsOpen[u], email_verified |-> TRUE,
                       last_login |-> 0]] :
        ro \in {f \in [Users -> {"child", "parent", "admin"}] : f["u2"] # "parent"}}

\* ok: successful chat calls; overlap: two calls of the user were in flight
\* at once; signals: the message whose side writes, all stored, were the
\* latest side writes of the deployment (MsgEmpty if another call's were)
NoHist == [ok |-> 0, overlap |-> FALSE, signals |-> MsgEmpty]

SessionRow(u, token, t) ==
    [user_id |-> u, token |-> token, expires_at |-> ExpiresAt(t), created_at |-> t]

\* a Worker deployment where both users have just logged in
SideInit ==
    /\ backend = "worker"
    /\ now = 0
    /\ users \in UserRows({LimitsOpen})
    /\ sessions = {SessionRow("u1", 1, 0), SessionRow("u2", 2, 0)}
    /\ threads = <<>>
    /\ messages = <<>>
    /\ profiles = {}
    /\ req = [r \in Slots |-> IdleReq]
    /\ calls = 0
    /\ faults = 0
    /\ last = NoResp
    /\ hist = [u \in Users |-> NoHist]
    /\ client = NoClient
    /\ moods = <<>>
    /\ topics = {}
    /\ verifications = {}

\* a chat call of the Worker that has stored its user message and is about to
\* score it
MoodInit ==
    /\ backend = "worker"
    /\ now = 0
    /\ users \in UserRows({LimitsOpen})
    /\ sessions = {SessionRow("u1", 1, 0), SessionRow("u2", 2, 0)}
    /\ threads = <<>>
    /\ messages = <<>>
    /\ profiles = {}
    /\ \E message \in MoodMessages :
          req = [r \in Slots |->
                   IF r = 1
                   THEN [IdleReq EXCEPT !.pc = "side", !.token = 1, !.user = "u1",
                                        !.limits = LimitsOpen["u1"], !.msg = message,
                                        !.call = 1]
                   ELSE IdleReq]
    /\ calls = 1
    /\ faults = 0
    /\ last = NoResp
    /\ hist = [u \in Users |-> NoHist]
    /\ client = NoClient
    /\ moods = <<>>
    /\ topics = {}
    /\ verifications = {}

\* the row of a user as /api/register inserts it: no limits column is written
RegisteredRow(u, t) ==
    [role |-> "child", email |-> u, status |-> "pending", limits |-> NoLimits,
     email_verified |-> FALSE, last_login |-> t]

\* the place of a user who has not registered
AbsentRow(u) == [RegisteredRow(u, 0) EXCEPT !.status = "absent"]

\* a Worker deployment whose administrator (u2) has logged in, before u1
\* registers
VerifyInit ==
    /\ backend = "worker"
    /\ now = 0
    /\ \E rows \in UserRows({LimitsOpen}) :
          users = [u \in Users |-> IF u = adminEmail THEN rows[u] ELSE AbsentRow(u)]
    /\ sessions = {SessionRow(adminEmail, 1, 0)}
    /\ threads = <<>>
    /\ messages = <<>>
    /\ profiles = {}
    /\ req = [r \in Slots |-> IdleReq]
    /\ calls = 0
    /\ faults = 0
    /\ last = NoResp
    /\ hist = [u \in Users |-> NoHist]
    /\ client = NoClient
    /\ moods = <<>>
    /\ topics = {}
    /\ verifications = {}

\* an Express deployment after the seed: the admin row is there, u1 has not
\* registered
XAuthInit ==
    /\ backend = "express"
    /\ now = 0
    /\ \E rows \in UserRows({LimitsOpen}) :
          users = [u \in Users |-> IF u = adminEmail THEN rows[u] ELSE AbsentRow(u)]
    /\ sessions = {}
    /\ threads = <<>>
    /\ messages = <<>>
    /\ profiles = {}
    /\ req = [r \in Slots |-> IdleReq]
    /\ calls = 0
    /\ faults = 0
    /\ last = NoResp
    /\ hist = [u \in Users |-> NoHist]
    /\ client = NoClient
    /\ moods = <<>>
    /\ topics = {}
    /\ verifications = {}

\* a fresh Worker deployment
Init ==
    /\ backend = "worker"
    /\ now = 0
    /\ users \in UserRows({LimitsOpen})
    /\ sessions = {}
    /\ threads = <<>>
    /\ messages = <<>>
    /\ profiles = {}
    /\ req = [r \in Slots |-> IdleReq]
    /\ calls = 0
    /\ faults = 0
    /\ last = NoResp
    /\ hist = [u \in Users |-> NoHist]
    /\ client = NoClient
    /\ moods = <<>>
    /\ topics = {}
    /\ verifications = {}

\* a Worker deployment where both users have just logged in, with the roles
\* an administrator can have given them
AdminInit ==
    /\ backend = "worker"
    /\ now = 0
    /\ users \in RoleRows
    /\ sessions = {SessionRow("u1", 1, 0), SessionRow("u2", 2, 0)}
    /\ threads = <<>>
    /\ messages = <<>>
    /\ profiles = {}
    /\ req = [r \in Slots |-> IdleReq]
    /\ calls = 0
    /\ faults = 0
    /\ last = NoResp
    /\ hist = [u \in Users |-> NoHist]
    /\ client = NoClient
    /\ moods = <<>>
    /\ topics = {}
    /\ verifications = {}

\* either deployment; on the Worker both users have just logged in
ChatInit ==
    /\ backend \in {"worker", "express"}
    /\ now = 0
    /\ users \in UserRows(IF backend = "worker" THEN {LimitsOpen, LimitsShut} ELSE {LimitsOpen})
    /\ sessions = IF backend = "worker"
                  THEN {SessionRow("u1", 1, 0), SessionRow("u2", 2, 0)}
                  ELSE {}
    /\ threads = <<>>
    /\ messages = <<>>
    /\ profiles = {}
    /\ req = [r \in Slots |-> IdleReq]
    /\ calls = 0
    /\ faults = 0
    /\ last = NoResp
    /\ hist = [u \in Users |-> NoHist]
    /\ client = NoClient
    /\ moods = <<>>
    /\ topics = {}
    /\ verifications = {}

\* a Worker deployment where u1's row has no usable limits
QuotaInit ==
    /\ backend = "worker"
    /\ now = 0
    /\ users \in UserRows(LimitsLacking)
    /\ sessions = {SessionRow("u1", 1, 0), SessionRow("u2", 2, 0)}
    /\ threads = <<>>
    /\ messages = <<>>
    /\ profiles = {}
    /\ req = [r \in Slots |-> IdleReq]
    /\ calls = 0
    /\ faults = 0
    /\ last = NoResp
    /\ hist = [u \in Users |-> NoHist]
    /\ client = NoClient
    /\ moods = <<>>
    /\ topics = {}
    /\ verifications = {}

----------------------------------------------------------------------------
(* The clock *)

\* no response is on its way: requests are answered one at a time
Quiet == last = NoResp

Tick(limit) ==
    /\ Quiet
    /\ now + TickStep <= limit
    /\ now' = now + TickStep
    /\ UNCHANGED <<verifications, moods, topics, client, backend, users, sessions, threads, messages, profiles, req, calls,
                   faults, last, hist>>

\* an operation of the storage or of the AI provider that may fail
MayFail(ok) ==
    IF ok THEN faults' = faults
    ELSE faults < MaxFaults /\ faults' = faults + 1

\* the response reaches the client
Deliver ==
    /\ last # NoResp
    /\ last' = NoResp
    /\ UNCHANGED <<verifications, moods, topics, client, backend, now, users, sessions, threads, messages, profiles, req, calls,
                   faults, hist>>

----------------------------------------------------------------------------
(* Storage queries shared by the handlers *)

ThreadIds == {threads[i].id : i \in 1..Len(threads)}

ThreadRow(id) == threads[CHOOSE i \in 1..Len(threads) : threads[i].id = id]

\* the sequences listing S by ascending key; rows with equal keys come in
\* any order (ORDER BY does not decide it)
OrderedBy(S, key) ==
    {q \in [1..Cardinality(S) -> S] :
        /\ \A i, j \in 1..Cardinality(S) : i # j => q[i] # q[j]
        /\ \A i, j \in 1..Cardinality(S) : i < j => key[q[i]] <= key[q[j]]}

MessageTime == [i \in 1..Len(messages) |-> messages[i].created_at]

ThreadTimeDesc == [i \in 1..Len(threads) |-> 0 - threads[i].created_at]

\* select * from chat_messages where thread_id = ? order by created_at asc
\* (the rows are given by their position in chat_messages)
ThreadMessages(tid) ==
    OrderedBy({i \in 1..Len(messages) : messages[i].thread_id = tid}, MessageTime)

\* select * from chat_threads where user_id = ? order by created_at desc
UserThreads(u) ==
    OrderedBy({i \in 1..Len(threads) : threads[i].user_id = u}, ThreadTimeDesc)

\* thread ids a client can put in a request: none, an id in use, or an id
\* that is not in use
ClientThreadIds == {NoThread} \cup ThreadIds \cup {Len(threads) + 1}

\* what Math.random() can give for a new id: an id in use, or one that is not
RandomIds == ThreadIds \cup {Len(threads) + 1}

----------------------------------------------------------------------------
(* Worker: token gate *)

HasSession(token) == \E s \in sessions : s.token = token

SessionOf(token) == CHOOSE s \in sessions : s.token = token

\* Token Validator: session by exact token match, then the expiry check,
\* then the owning user record
validateToken(token) ==
    IF ~ HasSession(token)
    THEN [valid |-> FALSE, error |-> "Unauthenticated", user |-> NoUser]
    ELSE IF now > SessionOf(token).expires_at
         THEN [valid |-> FALSE, error |-> "Expired", user |-> NoUser]
         ELSE [valid |-> TRUE, error |-> "none", user |-> SessionOf(token).user_id]

\* tokens a client can put in X-Family-Token
ClientTokens == {NoToken, BogusToken} \cup {s.token : s \in sessions}

\* the two 401 answers of the gate, or "pass"
TokenGate(token) ==
    IF token = NoToken THEN "TokenRequired"
    ELSE IF ~ validateToken(token).valid THEN "TokenInvalid"
    ELSE "pass"

WResp(method, path, token, status, error) ==
    [NoResp EXCEPT !.backend = "worker", !.method = method, !.path = path,
                   !.token = token, !.status = status, !.error = error,
                   !.start = now]

----------------------------------------------------------------------------
(* Worker: public routes *)

WOptions(path, token) ==
    /\ backend = "worker"
    /\ Route("OPTIONS", path) = "options"
    /\ last' = WResp("OPTIONS", path, token, 204, "none")
    /\ UNCHANGED <<verifications, moods, topics, client, backend, now, users, sessions, threads, messages, profiles, req, calls,
                   faults, hist>>

WHealth(token) ==
    /\ backend = "worker"
    /\ Route("GET", "/api/health") = "health"
    /\ last' = WResp("GET", "/api/health", token, 200, "none")
    /\ UNCHANGED <<verifications, moods, topics, client, backend, now, users, sessions, threads, messages, profiles, req, calls,
                   faults, hist>>

\* test-supabase, register, verify-email, resend-verification: answered
\* before the token gate; their bodies touch users / email_verifications only
WPublic(method, path, token, status) ==
    /\ backend = "worker"
    /\ Route(method, path) \in {"test-supabase", "register", "verify-email", "resend-verification"}
    /\ last' = [WResp(method, path, token, status, "none")
                  EXCEPT !.touched = IF Route(method, path) = "test-supabase"
                                     THEN {"users"}
                                     ELSE {"users", "email_verifications"}]
    /\ UNCHANGED <<verifications, moods, topics, client, backend, now, users, sessions, threads, messages, profiles, req, calls,
                   faults, hist>>

\* the checks of the login without `user.status !== 'active'`
LoginStatusAnyStatus(u, cred) ==
    IF cred \in {"missing-field", "bad-family-code"} THEN 400
    ELSE IF cred = "bad-credentials" \/ users[u].status = "absent" THEN 401
    ELSE 200

\* the checks of the login, in their order; no user row has the email of an
\* absent user
LoginStatus(u, cred) ==
    IF cred \in {"missing-field", "bad-family-code"} THEN 400
    ELSE IF cred = "bad-credentials" \/ users[u].status = "absent" THEN 401
    ELSE IF users[u].status # "active" THEN 403
    ELSE 200

\* what the answer of the login says
LoginError(status, cred) ==
    IF status = 200 THEN "none"
    ELSE IF cred = "missing-field" THEN "FieldsRequired"
    ELSE IF cred = "bad-family-code" THEN "FamilyCodeInvalid"
    ELSE IF status = 401 THEN "CredentialsInvalid"
    ELSE "NotVerified"

\* POST /api/login.  cred: what the body carries; stored: whether the
\* (unchecked) sessions insert went through.  The update of last_login
\* follows the insert
WLogin(u, cred, token, stored) ==
    /\ backend = "worker"
    /\ Route("POST", "/api/login") = "login"
    /\ Cardinality(sessions) < MaxSessions
    /\ MayFail(stored \/ LoginStatus(u, cred) # 200)
    /\ LET sessionToken == Cardinality(sessions) + 1
           status == LoginStatus(u, cred)
       IN /\ sessions' = IF status = 200 /\ stored
                         THEN sessions \cup {SessionRow(u, sessionToken, now)}
                         ELSE sessions
          /\ users' = IF status = 200 THEN [users EXCEPT ![u].last_login = now] ELSE users
          /\ last' = [WResp("POST", "/api/login", token, status, LoginError(status, cred))
                        EXCEPT !.user = IF status = 200 THEN u ELSE NoUser,
                               !.issued = IF status = 200 /\ stored THEN sessionToken ELSE NoToken,
                               !.touched = IF status = 400 THEN {}
                                           ELSE IF status = 200 THEN {"users", "sessions"}
                                           ELSE {"users"}]
    /\ UNCHANGED <<verifications, moods, topics, client, backend, now, threads, messages, profiles, req, calls, hist>>

\* what generateSecureCode(6) can give: with MaxCodes codes, a code can repeat
Codes == 1..MaxCodes

NoCode == 0      \* code absent from the body

\* the codes a request can be given: none is generated for a request that is
\* rejected
NewCodes(accepted) == IF accepted THEN Codes ELSE {NoCode}

FreeVerificationId == CHOOSE i \in 1..(MaxCodes + 1) : \A v \in verifications : v.id # i

VerificationRow(u, code) ==
    [id |-> FreeVerificationId, user_id |-> u, code |-> code, expires_at |-> ExpiresAt(now)]

\* what a register body can be: complete, or with a missing field, an invalid
\* email, a wrong family code or a weak password
RegisterBodies == {"ok", "invalid"}

\* POST /api/register.  inserted: whether the users insert went through (the
\* handler throws otherwise); stored: whether the (unchecked) insert of the
\* verification row went through
WRegister(u, body, token, code, inserted, stored) ==
    /\ backend = "worker"
    /\ Route("POST", "/api/register") = "register"
    /\ LET status == IF body # "ok" THEN 400
                     ELSE IF users[u].status # "absent" THEN 409
                     ELSE IF ~ inserted THEN 500
                     ELSE 201
       IN /\ status \in {201, 500} => Cardinality(verifications) < MaxCodes
          /\ MayFail(status \notin {201, 500} \/ (inserted /\ stored))
          /\ inserted \/ stored
          /\ status \notin {201, 500} => inserted /\ stored
          /\ users' = IF status = 201 THEN [users EXCEPT ![u] = RegisteredRow(u, now)]
                      ELSE users
          /\ verifications' = IF status = 201 /\ stored
                              THEN verifications \cup {VerificationRow(u, code)}
                              ELSE verifications
          /\ last' = [WResp("POST", "/api/register", token, status, "none")
                        EXCEPT !.user = IF status = 201 THEN u ELSE NoUser,
                               !.touched = IF status = 400 THEN {}
                                           ELSE IF status = 201
                                           THEN {"users", "email_verifications"}
                                           ELSE {"users"}]
    /\ UNCHANGED <<sessions, moods, topics, client, backend, now, threads, messages,
                   profiles, req, calls, hist>>

\* .eq('user_id', userId).eq('code', code)
Matching(userId, code) == {v \in verifications : v.user_id = userId /\ v.code = code}

\* the answer of the checks of verify-email, or "pass"; .single() gives an
\* error unless exactly one row matches
VerifyGate(userId, code) ==
    IF userId = NoUser \/ code = NoCode THEN "FieldsRequired"
    ELSE IF Cardinality(Matching(userId, code)) # 1 THEN "CodeInvalid"
    ELSE IF now > (CHOOSE v \in Matching(userId, code) : TRUE).expires_at THEN "CodeExpired"
    ELSE "pass"

\* POST /api/verify-email.  fail: the (unchecked) statement the storage
\* fails, "update" (of the user row), "delete" (of the verification row) or
\* "none"
WVerifyEmail(userId, code, token, fail) ==
    /\ backend = "worker"
    /\ Route("POST", "/api/verify-email") = "verify-email"
    /\ LET answer == VerifyGate(userId, code)
       IN IF answer # "pass"
          THEN /\ fail = "none"
               /\ last' = [WResp("POST", "/api/verify-email", token, 400, answer)
                             EXCEPT !.touched = IF answer = "FieldsRequired" THEN {}
                                                ELSE {"email_verifications"}]
               /\ UNCHANGED <<users, verifications, faults>>
          ELSE /\ MayFail(fail = "none")
               /\ users' = IF fail = "update" THEN users
                           ELSE [users EXCEPT ![userId].status = "active",
                                              ![userId].email_verified = TRUE]
               /\ verifications' = IF fail = "delete" THEN verifications
                                   ELSE verifications \ Matching(userId, code)
               /\ last' = [WResp("POST", "/api/verify-email", token, 200, "none")
                             EXCEPT !.user = userId,
                                    !.touched = {"users", "email_verifications"}]
    /\ UNCHANGED <<sessions, moods, topics, client, backend, now, threads, messages,
                   profiles, req, calls, hist>>

\* POST /api/resend-verification.  stored: whether the (unchecked) insert of
\* the verification row went through
WResend(userId, token, code, stored) ==
    /\ backend = "worker"
    /\ Route("POST", "/api/resend-verification") = "resend-verification"
    /\ LET status == IF userId = NoUser THEN 400
                     ELSE IF users[userId].status = "absent" THEN 404
                     ELSE IF users[userId].status = "active" THEN 400
                     ELSE 200
       IN /\ status = 200 => Cardinality(verifications) < MaxCodes
          /\ MayFail(stored)
          /\ status # 200 => stored
          /\ verifications' = IF status = 200 /\ stored
                              THEN verifications \cup {VerificationRow(userId, code)}
                              ELSE verifications
          /\ last' = [WResp("POST", "/api/resend-verification", token, status, "none")
                        EXCEPT !.touched = IF userId = NoUser THEN {}
                                           ELSE IF status = 200
                                           THEN {"users", "email_verifications"}
                                           ELSE {"users"}]
    /\ UNCHANGED <<users, sessions, moods, topics, client, backend, now, threads, messages,
                   profiles, req, calls, hist>>

----------------------------------------------------------------------------
(* Worker: protected routes other than chat *)

\* the gate answering 403 where the code answers 401
WUnauthorized403(method, path, token) ==
    /\ backend = "worker"
    /\ Route(method, path) = "protected"
    /\ TokenGate(token) # "pass"
    /\ last' = [WResp(method, path, token, 403, TokenGate(token))
                  EXCEPT !.touched = IF token = NoToken THEN {} ELSE {"sessions"}]
    /\ UNCHANGED <<verifications, moods, topics, client, backend, now, users, sessions, threads, messages, profiles, req, calls,
                   faults, hist>>

\* any protected route with a missing or invalid token
WUnauthorized(method, path, token) ==
    /\ backend = "worker"
    /\ Route(method, path) = "protected"
    /\ TokenGate(token) # "pass"
    /\ last' = [WResp(method, path, token, 401, TokenGate(token))
                  EXCEPT !.touched = IF token = NoToken THEN {} ELSE {"sessions"}]
    /\ UNCHANGED <<verifications, moods, topics, client, backend, now, users, sessions, threads, messages, profiles, req, calls,
                   faults, hist>>

WGetThreads(token) ==
    /\ backend = "worker"
    /\ Route("GET", "/api/chat/threads") = "protected"
    /\ TokenGate(token) = "pass"
    /\ ProtectedRoute("GET", "/api/chat/threads") = "threads"
    /\ \E rows \in UserThreads(validateToken(token).user) :
          last' = [WResp("GET", "/api/chat/threads", token, 200, "none")
                     EXCEPT !.user = validateToken(token).user,
                            !.touched = {"sessions", "users", "chat_threads"},
                            !.rows = rows]
    /\ UNCHANGED <<verifications, moods, topics, client, backend, now, users, sessions, threads, messages, profiles, req, calls,
                   faults, hist>>

WGetThread(token, tid) ==
    /\ backend = "worker"
    /\ Route("GET", "/api/chat/thread/") = "protected"
    /\ TokenGate(token) = "pass"
    /\ ProtectedRoute("GET", "/api/chat/thread/") = "thread"
    /\ \E rows \in ThreadMessages(tid) :
          last' = [WResp("GET", "/api/chat/thread/", token, 200, "none")
                     EXCEPT !.user = validateToken(token).user,
                            !.threadId = tid,
                            !.touched = {"sessions", "users", "chat_messages"},
                            !.rows = rows]
    /\ UNCHANGED <<verifications, moods, topics, client, backend, now, users, sessions, threads, messages, profiles, req, calls,
                   faults, hist>>

ProfileTable(path) == IF path = "/api/profile" THEN "user_profiles" ELSE "user_settings"

\* the profile and settings block placed before the token gate
WProfileNoGate(method, path, token) ==
    /\ backend = "worker"
    /\ Route(method, path) = "protected"
    /\ ProtectedRoute(method, path) \in {"profile-get", "profile-put", "settings-get", "settings-put"}
    /\ method = "PUT" => Cardinality(profiles) < MaxProfileRows \/ <<ProfileTable(path), validateToken(token).user>> \in profiles
    /\ LET u == validateToken(token).user
       IN /\ profiles' = IF method = "PUT"
                         THEN profiles \cup {<<ProfileTable(path), u>>}
                         ELSE profiles
          /\ last' = [WResp(method, path, token, 200, "none")
                        EXCEPT !.user = u,
                               !.touched = {"sessions", "users", ProfileTable(path)}]
    /\ UNCHANGED <<verifications, moods, topics, client, backend, now, users, sessions, threads, messages, req, calls, faults, hist>>

\* GET / PUT of /api/profile and /api/settings: a read or an upsert of the
\* caller's own row
WProfile(method, path, token) ==
    /\ backend = "worker"
    /\ Route(method, path) = "protected"
    /\ TokenGate(token) = "pass"
    /\ ProtectedRoute(method, path) \in {"profile-get", "profile-put", "settings-get", "settings-put"}
    /\ method = "PUT" => Cardinality(profiles) < MaxProfileRows \/ <<ProfileTable(path), validateToken(token).user>> \in profiles
    /\ LET u == validateToken(token).user
       IN /\ profiles' = IF method = "PUT"
                         THEN profiles \cup {<<ProfileTable(path), u>>}
                         ELSE profiles
          /\ last' = [WResp(method, path, token, 200, "none")
                        EXCEPT !.user = u,
                               !.touched = {"sessions", "users", ProfileTable(path)}]
    /\ UNCHANGED <<verifications, moods, topics, client, backend, now, users, sessions, threads, messages, req, calls, faults, hist>>

\* what the body of PUT /api/admin/user/:id can set, as <<column, value>>
UserUpdates == {<<"status", "active">>, <<"role", "parent">>}

\* PUT /api/admin/user/:id: the body is written into the user row.  found:
\* whether the update returned its row (.single() gives an error, and the
\* handler answers 500, otherwise)
WAdminUserPut(token, userId, update, found) ==
    /\ backend = "worker"
    /\ Route("PUT", "/api/admin/user/") = "protected"
    /\ TokenGate(token) = "pass"
    /\ ProtectedRoute("PUT", "/api/admin/user/") = "admin"
    /\ AdminRoute("PUT", "/api/admin/user/") = "user-put"
    /\ LET u == validateToken(token).user
           written == found /\ users[userId].status # "absent"
           status == IF ~ isAdmin(users[u]) THEN 403
                     ELSE IF written THEN 200
                     ELSE 500
       IN /\ MayFail(found)
          /\ (status = 403 \/ users[userId].status = "absent") => found
          /\ users' = IF status = 200
                      THEN [users EXCEPT ![userId] =
                              [users[userId] EXCEPT ![update[1]] = update[2]]]
                      ELSE users
          /\ last' = [WResp("PUT", "/api/admin/user/", token, status, "none")
                        EXCEPT !.user = u,
                               !.touched = IF status = 403 THEN {"sessions", "users"}
                                           ELSE {"sessions", "users", "admin"}]
    /\ UNCHANGED <<verifications, sessions, moods, topics, client, backend, now, threads,
                   messages, profiles, req, calls, hist>>

\* everything else that reaches the admin gate
WAdmin(method, path, token) ==
    /\ backend = "worker"
    /\ Route(method, path) = "protected"
    /\ TokenGate(token) = "pass"
    /\ ProtectedRoute(method, path) = "admin"
    /\ AdminRoute(method, path) # "user-put"
    /\ LET u == validateToken(token).user
           status == IF ~ isAdmin(users[u]) THEN 403
                     ELSE IF AdminRoute(method, path) # "none" THEN 200
                     ELSE 404
       IN last' = [WResp(method, path, token, status, "none")
                     EXCEPT !.user = u,
                            !.touched = IF status = 200 THEN {"sessions", "users", "admin"}
                                        ELSE {"sessions", "users"}]
    /\ UNCHANGED <<verifications, moods, topics, client, backend, now, users, sessions, threads, messages, profiles, req, calls,
                   faults, hist>>

----------------------------------------------------------------------------
(* Worker: POST /api/chat *)

InFlight(r) == req[r].pc # "idle"

\* a call is taken into the lowest free slot
FreeSlot(r) == ~ InFlight(r) /\ \A q \in Slots : q < r => InFlight(q)

Overlaps(r, u) == \E q \in Slots : q # r /\ InFlight(q) /\ req[q].user = u

\* the gates with the limits check ahead of the moderation
ChatGateQuotaFirst(message, user, limits) ==
    IF message = MsgEmpty THEN "MessageRequired"
    ELSE IF ~ validateUserLimits(user, limits) THEN "RateLimited"
    ELSE IF ~ Moderation[message] THEN "ContentRejected"
    ELSE "pass"

\* the answer of the synchronous gates of the chat block, or "pass"
ChatGate(message, user, limits) ==
    IF message = MsgEmpty THEN "MessageRequired"
    ELSE IF ~ Moderation[message] THEN "ContentRejected"
    ELSE IF ~ validateUserLimits(user, limits) THEN "RateLimited"
    ELSE "pass"

GateStatus(answer) == IF answer = "RateLimited" THEN 429 ELSE 400

\* the handler behind a lock: a request waits while another call is in flight
WChatFetchSerialized(r, token, message, threadId) ==
    /\ backend = "worker"
    /\ FreeSlot(r)
    /\ \A q \in Slots : ~ InFlight(q)
    /\ Route("POST", "/api/chat") = "protected"
    /\ TokenGate(token) = "pass"
    /\ ProtectedRoute("POST", "/api/chat") = "chat"
    /\ LET u == validateToken(token).user
           limits == users[u].limits
           answer == ChatGate(message, u, limits)
       IN IF answer # "pass"
          THEN /\ last' = [WResp("POST", "/api/chat", token, GateStatus(answer), answer)
                             EXCEPT !.user = u, !.msg = message, !.limits = limits,
                                    !.touched = {"sessions", "users"}]
               /\ UNCHANGED <<req, calls, hist>>
          ELSE /\ calls < MaxCalls
               /\ req' = [req EXCEPT ![r] = [IdleReq EXCEPT !.pc = "thread", !.token = token,
                                                !.user = u, !.limits = limits,
                                                !.msg = message, !.threadId = threadId,
                                                !.start = now, !.call = calls + 1]]
               /\ calls' = calls + 1
               /\ hist' = [hist EXCEPT ![u].overlap = @ \/ Overlaps(r, u)]
               /\ UNCHANGED last
    /\ UNCHANGED <<verifications, moods, topics, client, backend, now, users, sessions, threads, messages, profiles, faults>>

\* the limits check counting the calls of the user that are in flight: a
\* reservation taken with the check
WChatFetchReserving(r, token, message, threadId) ==
    /\ backend = "worker"
    /\ FreeSlot(r)
    /\ Route("POST", "/api/chat") = "protected"
    /\ TokenGate(token) = "pass"
    /\ ProtectedRoute("POST", "/api/chat") = "chat"
    /\ LET u == validateToken(token).user
           limits == users[u].limits
           taken == Cardinality({q \in Slots : InFlight(q) /\ req[q].user = u})
           reserved == IF limits = NoLimits THEN limits
                       ELSE [limits EXCEPT !.used_today = @ + taken]
           answer == ChatGate(message, u, reserved)
       IN IF answer # "pass"
          THEN /\ last' = [WResp("POST", "/api/chat", token, GateStatus(answer), answer)
                             EXCEPT !.user = u, !.msg = message, !.limits = limits,
                                    !.touched = {"sessions", "users"}]
               /\ UNCHANGED <<req, calls, hist>>
          ELSE /\ calls < MaxCalls
               /\ req' = [req EXCEPT ![r] = [IdleReq EXCEPT !.pc = "thread", !.token = token,
                                                !.user = u, !.limits = limits,
                                                !.msg = message, !.threadId = threadId,
                                                !.start = now, !.call = calls + 1]]
               /\ calls' = calls + 1
               /\ hist' = [hist EXCEPT ![u].overlap = @ \/ Overlaps(r, u)]
               /\ UNCHANGED last
    /\ UNCHANGED <<verifications, moods, topics, client, backend, now, users, sessions, threads, messages, profiles, faults>>

\* the request arrives: token gate, body, moderation, limits
WChatFetch(r, token, message, threadId) ==
    /\ backend = "worker"
    /\ FreeSlot(r)
    /\ Route("POST", "/api/chat") = "protected"
    /\ TokenGate(token) = "pass"
    /\ ProtectedRoute("POST", "/api/chat") = "chat"
    /\ LET u == validateToken(token).user
           limits == users[u].limits
           answer == ChatGate(message, u, limits)
       IN IF answer # "pass"
          THEN /\ last' = [WResp("POST", "/api/chat", token, GateStatus(answer), answer)
                             EXCEPT !.user = u, !.msg = message, !.limits = limits,
                                    !.touched = {"sessions", "users"}]
               /\ UNCHANGED <<req, calls, hist>>
          ELSE /\ calls < MaxCalls
               /\ req' = [req EXCEPT ![r] = [IdleReq EXCEPT !.pc = "thread", !.token = token,
                                                !.user = u, !.limits = limits,
                                                !.msg = message, !.threadId = threadId,
                                                !.start = now, !.call = calls + 1]]
               /\ calls' = calls + 1
               /\ hist' = [hist EXCEPT ![u].overlap = @ \/ Overlaps(r, u)]
               /\ UNCHANGED last
    /\ UNCHANGED <<verifications, moods, topics, client, backend, now, users, sessions, threads, messages, profiles, faults>>

\* a lookup that never finds the thread
FindThreadNever(threadId, user) == NoThread

\* a lookup by id alone, without .eq('user_id', user.id)
FindThreadAnyOwner(threadId, user) ==
    IF threadId # NoThread /\ threadId \in ThreadIds THEN threadId ELSE NoThread

\* .eq('id', threadId).eq('user_id', user.id).single(): the id, or NoThread
FindThread(threadId, user) ==
    IF threadId # NoThread /\ threadId \in ThreadIds /\ ThreadRow(threadId).user_id = user
    THEN threadId
    ELSE NoThread

\* every response of a chat call built after updateMessageCount
ChatRespCounted(r, status, error) ==
    [NoResp EXCEPT !.backend = backend, !.method = "POST", !.path = "/api/chat",
                   !.token = req[r].token, !.status = status, !.error = error,
                   !.user = req[r].user, !.msg = req[r].msg, !.threadId = req[r].threadId,
                   !.thread = req[r].thread, !.call = req[r].call,
                   !.limits = updateMessageCount(req[r].limits),
                   !.start = req[r].start, !.created = req[r].created,
                   !.side = req[r].side, !.reply = req[r].reply,
                   !.touched = {"sessions", "users", "chat_threads", "chat_messages"}]

\* the response of the chat call in slot r
ChatResp(r, status, error) ==
    [NoResp EXCEPT !.backend = backend, !.method = "POST", !.path = "/api/chat",
                   !.token = req[r].token, !.status = status, !.error = error,
                   !.user = req[r].user, !.msg = req[r].msg, !.threadId = req[r].threadId,
                   !.thread = req[r].thread, !.call = req[r].call, !.limits = req[r].limits,
                   !.start = req[r].start, !.created = req[r].created,
                   !.side = req[r].side, !.reply = req[r].reply,
                   !.touched = {"sessions", "users", "chat_threads", "chat_messages"}]

\* "Crear o obtener hilo".  stored: whether the insert returned a row
WResolveThread(r, stored) ==
    /\ backend = "worker"
    /\ req[r].pc = "thread"
    /\ LET found == FindThread(req[r].threadId, req[r].user)
       IN IF found # NoThread
          THEN /\ req' = [req EXCEPT ![r].pc = "userMsg", ![r].thread = found]
               /\ stored
               /\ UNCHANGED <<threads, last, faults>>
          ELSE IF stored
          THEN /\ threads' = Append(threads, [id |-> Len(threads) + 1,
                                              user_id |-> req[r].user,
                                              title |-> substring(req[r].msg, TitleLen),
                                              created_at |-> now,
                                              call |-> req[r].call])
               /\ req' = [req EXCEPT ![r].pc = "userMsg", ![r].thread = Len(threads) + 1,
                                     ![r].created = TRUE]
               /\ UNCHANGED <<last, faults>>
          ELSE \* newThread is null: thread.id throws, the catch answers 500
               /\ MayFail(FALSE)
               /\ last' = ChatResp(r, 500, "Error")
               /\ req' = [req EXCEPT ![r] = IdleReq]
               /\ UNCHANGED threads
    /\ UNCHANGED <<verifications, moods, topics, client, backend, now, users, sessions, messages, profiles, calls, hist>>

MessageRow(r, role, content) ==
    [thread_id |-> req[r].thread, user_id |-> req[r].user, content |-> content,
     role |-> role, created_at |-> now, call |-> req[r].call]

\* detectMood and detectTopics, tabulated over the request bodies
Mood == [m \in Messages \cup SideMessages \cup MoodMessages |-> detectMood(m)]

Topics == [m \in Messages \cup SideMessages \cup MoodMessages |-> detectTopics(m)]

\* the message has a mood or a topic: the handler awaits a side write
HasSignals(message) == Mood[message] # NoMood \/ Topics[message] # {}

\* "Guardar mensaje del usuario": the result of the insert is not looked at
WInsertUserMessage(r, stored) ==
    /\ backend = "worker"
    /\ req[r].pc = "userMsg"
    /\ messages' = IF stored THEN Append(messages, MessageRow(r, "user", req[r].msg))
                   ELSE messages
    /\ req' = [req EXCEPT ![r].pc = IF HasSignals(req[r].msg) THEN "side" ELSE "ai"]
    /\ MayFail(stored)
    /\ UNCHANGED <<verifications, moods, topics, client, backend, now, users, sessions, threads, profiles, calls, last, hist>>

MoodRow(r, mood) ==
    [user_id |-> req[r].user, mood_score |-> mood.score, detected_at |-> now,
     confidence |-> mood.confidence, detected_mood |-> mood.type]

TopicRow(r, topic) ==
    [topic |-> topic, mentions |-> 1, last_mentioned |-> now, user_id |-> req[r].user]

\* upsert with onConflict 'topic': the rows of the upserted topics are replaced
Upsert(rows, new) == {t \in rows : \A n \in new : n.topic # t.topic} \cup new

\* the side writes with `if (error) throw error` after each of them
WSideSignalsThrowing(r, moodStored, stored) ==
    /\ backend = "worker"
    /\ req[r].pc = "side"
    /\ LET mood == Mood[req[r].msg]
           found == Topics[req[r].msg]
           failures == (IF mood # NoMood /\ ~ moodStored THEN 1 ELSE 0)
                       + Cardinality(found \ stored)
       IN /\ stored \subseteq found
          /\ mood = NoMood => moodStored
          /\ faults + failures <= MaxFaults
          /\ faults' = faults + failures
          /\ moods' = IF mood # NoMood /\ moodStored
                      THEN Append(moods, MoodRow(r, mood))
                      ELSE moods
          /\ topics' = Upsert(topics, {TopicRow(r, t) : t \in stored})
          /\ hist' = [u \in Users |->
                        [hist[u] EXCEPT !.signals = IF u = req[r].user /\ failures = 0
                                                    THEN req[r].msg ELSE MsgEmpty]]
          /\ IF failures > 0
             THEN /\ last' = [ChatResp(r, 500, "Error") EXCEPT !.side = failures]
                  /\ req' = [req EXCEPT ![r] = IdleReq]
             ELSE /\ req' = [req EXCEPT ![r].pc = "ai", ![r].side = failures]
                  /\ UNCHANGED last
    /\ UNCHANGED <<verifications, client, backend, now, users, sessions, threads, messages, profiles,
                   calls>>

\* "Detectar estado de animo", "Detectar temas": the mood insert and the topic
\* upserts.  moodStored: whether the insert went through; stored: the topics
\* whose upsert went through.  No result is looked at
WSideSignals(r, moodStored, stored) ==
    /\ backend = "worker"
    /\ req[r].pc = "side"
    /\ LET mood == Mood[req[r].msg]
           found == Topics[req[r].msg]
           failures == (IF mood # NoMood /\ ~ moodStored THEN 1 ELSE 0)
                       + Cardinality(found \ stored)
       IN /\ stored \subseteq found
          /\ mood = NoMood => moodStored
          /\ faults + failures <= MaxFaults
          /\ faults' = faults + failures
          /\ moods' = IF mood # NoMood /\ moodStored
                      THEN Append(moods, MoodRow(r, mood))
                      ELSE moods
          /\ topics' = Upsert(topics, {TopicRow(r, t) : t \in stored})
          /\ req' = [req EXCEPT ![r].pc = "ai", ![r].side = failures]
          /\ hist' = [u \in Users |->
                        [hist[u] EXCEPT !.signals = IF u = req[r].user /\ failures = 0
                                                    THEN req[r].msg ELSE MsgEmpty]]
    /\ UNCHANGED <<verifications, client, backend, now, users, sessions, threads, messages, profiles,
                   calls, last>>

\* what the AI provider can do: "throw" (the call fails, there is no reply),
\* "unparsable" (a reply whose body is not JSON: reading it throws), "none" (a
\* JSON payload without candidate text, whatever the status) or "text" (a
\* candidate text)
AiReplies ==
    {[kind |-> "throw", text |-> NoText], [kind |-> "unparsable", text |-> NoText],
     [kind |-> "none", text |-> NoText]}
    \cup {[kind |-> "text", text |-> t] : t \in AiTexts}

\* the candidate text without the `|| fallback`
AiResponseTextRaw(reply) == reply.text

\* geminiData.candidates?.[0]?.content?.parts?.[0]?.text || fallback
AiResponseText(reply) == IF reply.kind = "text" THEN reply.text ELSE FallbackText

\* "Llamada a Google Gemini"
WCallAI(r, reply) ==
    /\ backend = "worker"
    /\ req[r].pc = "ai"
    /\ IF reply.kind \in {"throw", "unparsable"}
       THEN /\ last' = [ChatResp(r, 500, "Error") EXCEPT !.reply = reply.kind]
            /\ req' = [req EXCEPT ![r] = IdleReq]
       ELSE /\ req' = [req EXCEPT ![r].pc = "aiMsg", ![r].ai = AiResponseText(reply),
                                  ![r].reply = reply.kind]
            /\ UNCHANGED last
    /\ MayFail(reply.kind = "text")
    /\ UNCHANGED <<verifications, moods, topics, client, backend, now, users, sessions, threads, messages, profiles, calls, hist>>

\* "Guardar respuesta de IA", updateMessageCount(user), the 200 response
WInsertAiMessage(r, stored) ==
    /\ backend = "worker"
    /\ req[r].pc = "aiMsg"
    /\ messages' = IF stored THEN Append(messages, MessageRow(r, "assistant", req[r].ai))
                   ELSE messages
    /\ last' = [ChatResp(r, 200, "none")
                  EXCEPT !.response = req[r].ai,
                         !.limits = updateMessageCount(req[r].limits)]
    /\ hist' = [hist EXCEPT ![req[r].user].ok = @ + 1]
    /\ req' = [req EXCEPT ![r] = IdleReq]
    /\ MayFail(stored)
    /\ UNCHANGED <<verifications, moods, topics, client, backend, now, users, sessions, threads, profiles, calls>>

----------------------------------------------------------------------------
(* Express: src/server.ts *)

\* values of the x-user-email header: a user, absent, or nobody's email
ClientEmails == Users \cup {NoUser, Stranger}

\* SELECT * FROM users WHERE email = ? finds a row
HasUser(email) == email \in Users /\ users[email].status # "absent"

\* the middleware without `|| adminEmail`
authMiddlewareNoDefault(email) == IF HasUser(email) THEN email ELSE NoUser

\* authMiddleware: req.user, or NoUser for the 401
authMiddleware(email) ==
    LET userEmail == IF email = NoUser THEN adminEmail ELSE email
    IN IF HasUser(userEmail) THEN userEmail ELSE NoUser

\* adminMiddleware: next() is called
adminMiddleware(user) == ~ (users[user].role # "admin" /\ users[user].email # adminEmail)

XResp(status, error, user, message, threadId) ==
    [NoResp EXCEPT !.backend = "express", !.method = "POST", !.path = "/api/chat",
                   !.status = status, !.error = error, !.user = user,
                   !.msg = message, !.threadId = threadId, !.start = now]

XMessageRow(thread, role, content, call) ==
    [thread_id |-> thread, content |-> content, role |-> role,
     created_at |-> now, call |-> call]

\* POST /api/chat up to the await of the AI call: middleware, body check,
\* blocked terms, thread insert, user message insert.
\* newId: what Math.random() gives for the thread id; stored: whether the
\* message insert went through (it throws otherwise)
XChatStart(r, email, message, threadId, newId, stored) ==
    /\ backend = "express"
    /\ FreeSlot(r)
    /\ LET user == authMiddleware(email)
           tid == IF threadId = NoThread THEN newId ELSE threadId
           threadOk == threadId # NoThread \/ newId \notin ThreadIds
           threads1 == IF threadId = NoThread /\ threadOk
                       THEN Append(threads, [id |-> newId, user_id |-> user,
                                             title |-> substring(message, XTitleLen),
                                             created_at |-> now, last_message_at |-> now,
                                             call |-> calls + 1])
                       ELSE threads
           \* the foreign key of chat_messages.thread_id
           messageOk == threadOk /\ stored /\ \E i \in 1..Len(threads1) : threads1[i].id = tid
       IN IF user = NoUser
          THEN /\ last' = XResp(401, "Unauthorized", NoUser, MsgEmpty, NoThread)
               /\ UNCHANGED <<threads, messages, req, calls, faults, hist>>
          ELSE IF message = MsgEmpty
          THEN /\ last' = XResp(400, "MessageRequired", user, message, NoThread)
               /\ UNCHANGED <<threads, messages, req, calls, faults, hist>>
          ELSE IF XModeration[message]
          THEN /\ last' = XResp(400, "ContentRejected", user, message, NoThread)
               /\ UNCHANGED <<threads, messages, req, calls, faults, hist>>
          ELSE /\ calls < MaxCalls
               /\ MayFail(stored)
               /\ calls' = calls + 1
               /\ threads' = threads1
               /\ IF messageOk
                  THEN /\ messages' = Append(messages, XMessageRow(tid, "user", message, calls + 1))
                       /\ req' = [req EXCEPT ![r] = [IdleReq EXCEPT !.pc = "ai", !.user = user,
                                                       !.msg = message, !.threadId = threadId,
                                                       !.thread = tid, !.start = now,
                                                       !.call = calls + 1,
                                                       !.created = (threadId = NoThread)]]
                       /\ hist' = [hist EXCEPT ![user].overlap = @ \/ Overlaps(r, user)]
                       /\ UNCHANGED last
                  ELSE /\ last' = [XResp(500, "Error", user, message, threadId)
                                     EXCEPT !.call = calls + 1,
                                            !.created = (threadId = NoThread /\ threadOk)]
                       /\ UNCHANGED <<messages, req, hist>>
    /\ UNCHANGED <<verifications, moods, topics, client, backend, now, users, sessions, profiles>>

\* response.text of the SDK: the text, or undefined when there is none
XResponseText(reply) == IF reply.kind = "text" THEN reply.text ELSE NoText

TouchThread(id) ==
    [i \in 1..Len(threads) |->
        IF threads[i].id = id THEN [threads[i] EXCEPT !.last_message_at = now]
        ELSE threads[i]]

\* the handler degrading to the fallback string, as the Worker does
XChatFinishFallback(r, reply, fail) ==
    /\ backend = "express"
    /\ req[r].pc = "ai"
    /\ IF fail = "insert"
       THEN /\ last' = [ChatResp(r, 500, "Error") EXCEPT !.reply = reply.kind]
            /\ UNCHANGED <<threads, messages, hist>>
       ELSE /\ messages' = Append(messages, XMessageRow(req[r].thread, "assistant",
                                                       AiResponseText(reply), req[r].call))
            /\ threads' = TouchThread(req[r].thread)
            /\ IF fail = "log"
               THEN /\ last' = [ChatResp(r, 500, "Error") EXCEPT !.reply = reply.kind]
                    /\ UNCHANGED hist
               ELSE /\ last' = [ChatResp(r, 200, "none")
                                  EXCEPT !.response = AiResponseText(reply),
                                         !.reply = reply.kind]
                    /\ hist' = [hist EXCEPT ![req[r].user].ok = @ + 1]
    /\ req' = [req EXCEPT ![r] = IdleReq]
    /\ MayFail(reply.kind = "text" /\ fail = "none")
    /\ reply.kind # "text" => fail = "none"
    /\ UNCHANGED <<verifications, moods, topics, client, backend, now, users, sessions, profiles, calls>>

\* POST /api/chat from the AI call on.  fail: the statement the storage
\* fails, "insert" (the assistant row), "log" (the security_logs row) or
\* "none".  Without a text, response.text is undefined, and the insert of the
\* assistant row throws on binding it
XChatFinish(r, reply, fail) ==
    /\ backend = "express"
    /\ req[r].pc = "ai"
    /\ IF reply.kind # "text" \/ fail = "insert"
       THEN /\ last' = [ChatResp(r, 500, "Error") EXCEPT !.reply = reply.kind]
            /\ UNCHANGED <<threads, messages, hist>>
       ELSE /\ messages' = Append(messages, XMessageRow(req[r].thread, "assistant",
                                                       XResponseText(reply), req[r].call))
            /\ threads' = TouchThread(req[r].thread)
            /\ IF fail = "log"
               THEN /\ last' = [ChatResp(r, 500, "Error") EXCEPT !.reply = reply.kind]
                    /\ UNCHANGED hist
               ELSE /\ last' = [ChatResp(r, 200, "none")
                                  EXCEPT !.response = XResponseText(reply),
                                         !.reply = reply.kind]
                    /\ hist' = [hist EXCEPT ![req[r].user].ok = @ + 1]
    /\ req' = [req EXCEPT ![r] = IdleReq]
    /\ MayFail(reply.kind = "text" /\ fail = "none")
    /\ reply.kind # "text" => fail = "none"
    /\ UNCHANGED <<verifications, moods, topics, client, backend, now, users, sessions, profiles, calls>>

\* the row POST /api/auth/register inserts; limits is the column default
XRegisteredRow(u) ==
    [role |-> "user", email |-> u, status |-> "active", limits |-> Limits(0),
     email_verified |-> FALSE, last_login |-> 0]

XRouteResp(method, path, status, error, user) ==
    [XResp(status, error, user, MsgEmpty, NoThread) EXCEPT !.method = method, !.path = path]

\* POST /api/auth/register.  secret: whether secretCode is the family code;
\* inserted: whether the insert went through (it throws on an email that is
\* taken, and on an id that is)
XRegister(email, secret, inserted) ==
    /\ backend = "express"
    /\ LET status == IF ~ secret THEN 403
                     ELSE IF HasUser(email) \/ ~ inserted THEN 400
                     ELSE 200
       IN /\ status = 403 => inserted
          /\ users' = IF status = 200 THEN [users EXCEPT ![email] = XRegisteredRow(email)]
                      ELSE users
          /\ last' = [XRouteResp("POST", "/api/auth/register", status, "none", NoUser)
                        EXCEPT !.touched = IF status = 403 THEN {} ELSE {"users"}]
    /\ UNCHANGED <<verifications, moods, topics, client, backend, now, sessions, threads,
                   messages, profiles, req, calls, faults, hist>>

\* GET /api/user/me
XUserMe(email) ==
    /\ backend = "express"
    /\ LET user == authMiddleware(email)
       IN last' = IF user = NoUser
                  THEN XRouteResp("GET", "/api/user/me", 401, "Unauthorized", NoUser)
                  ELSE [XRouteResp("GET", "/api/user/me", 200, "none", user)
                          EXCEPT !.touched = {"users", "user_preferences"}]
    /\ UNCHANGED <<verifications, moods, topics, client, backend, now, users, sessions, threads, messages, profiles, req, calls,
                   faults, hist>>

\* PUT /api/user/preferences: an upsert of the caller's row
XPutPreferences(email) ==
    /\ backend = "express"
    /\ LET user == authMiddleware(email)
       IN IF user = NoUser
          THEN /\ last' = XRouteResp("PUT", "/api/user/preferences", 401, "Unauthorized", NoUser)
               /\ UNCHANGED profiles
          ELSE /\ Cardinality(profiles) < MaxProfileRows \/ <<"user_preferences", user>> \in profiles
               /\ profiles' = profiles \cup {<<"user_preferences", user>>}
               /\ last' = [XRouteResp("PUT", "/api/user/preferences", 200, "none", user)
                             EXCEPT !.touched = {"users", "user_preferences"}]
    /\ UNCHANGED <<verifications, moods, topics, client, backend, now, users, sessions, threads, messages, req, calls,
                   faults, hist>>

\* the routes behind authMiddleware and adminMiddleware
XAdminRoutes == {<<"GET", "/api/admin/stats">>, <<"POST", "/api/admin/test-email">>,
                 <<"POST", "/api/images/generations">>, <<"GET", "/api/admin/images">>,
                 <<"GET", "/api/admin/images/stats">>}

\* a route behind both middlewares.  done: whether the handler, once it runs,
\* gets to its res.json (the two POST routes answer 500 otherwise)
XAdmin(email, route, done) ==
    /\ backend = "express"
    /\ route \in XAdminRoutes
    /\ LET user == authMiddleware(email)
           status == IF user = NoUser THEN 401
                     ELSE IF ~ adminMiddleware(user) THEN 403
                     ELSE IF done THEN 200
                     ELSE 500
       IN /\ (status \in {401, 403} \/ route[1] = "GET") => done
          /\ last' = [XRouteResp(route[1], route[2], status,
                                  IF status = 401 THEN "Unauthorized"
                                  ELSE IF status = 403 THEN "OnlyAdministrators"
                                  ELSE IF status = 500 THEN "Error" ELSE "none",
                                  user)
                        EXCEPT !.touched = IF status \in {200, 500} THEN {"users", "admin"}
                                           ELSE IF status = 403 THEN {"users"} ELSE {}]
    /\ UNCHANGED <<verifications, moods, topics, client, backend, now, users, sessions, threads, messages, profiles, req, calls,
                   faults, hist>>

ThreadTouchedDesc == [i \in 1..Len(threads) |-> 0 - threads[i].last_message_at]

\* SELECT * FROM chat_threads WHERE user_id = ? ORDER BY last_message_at DESC
XUserThreads(u) ==
    OrderedBy({i \in 1..Len(threads) : threads[i].user_id = u}, ThreadTouchedDesc)

XReadResp(path, status, error, user) ==
    [XResp(status, error, user, MsgEmpty, NoThread) EXCEPT !.method = "GET", !.path = path]

\* GET /api/chats
XGetChats(email) ==
    /\ backend = "express"
    /\ LET user == authMiddleware(email)
       IN IF user = NoUser
          THEN last' = XReadResp("/api/chats", 401, "Unauthorized", NoUser)
          ELSE \E rows \in XUserThreads(user) :
                  last' = [XReadResp("/api/chats", 200, "none", user)
                             EXCEPT !.touched = {"users", "chat_threads"}, !.rows = rows]
    /\ UNCHANGED <<verifications, moods, topics, client, backend, now, users, sessions, threads, messages, profiles, req, calls,
                   faults, hist>>

\* GET /api/chats/:id
XGetChat(email, id) ==
    /\ backend = "express"
    /\ LET user == authMiddleware(email)
       IN IF user = NoUser
          THEN last' = XReadResp("/api/chats/:id", 401, "Unauthorized", NoUser)
          ELSE \E rows \in ThreadMessages(id) :
                  last' = [XReadResp("/api/chats/:id", 200, "none", user)
                             EXCEPT !.threadId = id, !.touched = {"users", "chat_messages"},
                                    !.rows = rows]
    /\ UNCHANGED <<verifications, moods, topics, client, backend, now, users, sessions, threads, messages, profiles, req, calls,
                   faults, hist>>

----------------------------------------------------------------------------
(* Frontend: src/frontend/src/api.js and app.js *)

\* FamiliaAIAPI.request: the X-Family-Token header, set only if (this.token)
RequestHeader(token) == IF token # NoToken THEN token ELSE NoToken

\* the client after api.request(endpoint)
Requested(c, endpoint) ==
    [c EXCEPT !.endpoint = endpoint, !.header = RequestHeader(c.token)]

\* what /api/login and /api/verify-2fa can answer
LoginResults ==
    {[kind |-> "error", token |-> NoToken, user |-> NoUser],
     [kind |-> "requires2FA", token |-> NoToken, user |-> NoUser]}
    \cup {[kind |-> "ok", token |-> t, user |-> u] : t \in 1..MaxSessions, u \in Users}

\* handleLogin: api.login, then on a direct login state.user, user_data,
\* setupUIForUser and loadChats
handleLogin(result) ==
    /\ client.user = NoUser
    /\ ~ client.form2FA
    /\ LET sent == Requested(client, "/api/login")
       IN client' =
            IF result.kind = "error" THEN sent
            ELSE IF result.kind = "requires2FA" THEN [sent EXCEPT !.form2FA = TRUE]
            ELSE Requested([sent EXCEPT !.user = result.user, !.user_data = result.user,
                                        !.issued = result.token],
                           "/api/chats")
    /\ UNCHANGED <<backend, now, users, sessions, threads, messages, profiles, req, calls,
                   faults, last, hist, moods, topics, verifications>>

\* handle2FA: api.verify2FA, then state.user, familia_token, user_data,
\* setupUIForUser and loadChats
handle2FA(result) ==
    /\ client.form2FA
    /\ result.kind # "requires2FA"
    /\ LET sent == Requested(client, "/api/verify-2fa")
       IN client' =
            IF result.kind = "error" THEN sent
            ELSE Requested([sent EXCEPT !.user = result.user, !.familia_token = result.token,
                                        !.user_data = result.user, !.issued = result.token,
                                        !.form2FA = FALSE],
                           "/api/chats")
    /\ UNCHANGED <<backend, now, users, sessions, threads, messages, profiles, req, calls,
                   faults, last, hist, moods, topics, verifications>>

\* what POST /api/chat can answer: an error, or the thread of the turn
ChatResults == {NoThread} \cup (1..MaxCalls)

\* what the message input can hold
InputValues == {MsgEmpty, <<" ", " ">>, MsgHello, <<" ", "H", "i", " ">>}

RECURSIVE trimStart(_)
trimStart(s) == IF s # <<>> /\ Head(s) = " " THEN trimStart(Tail(s)) ELSE s

RECURSIVE trimEnd(_)
trimEnd(s) ==
    IF s # <<>> /\ s[Len(s)] = " " THEN trimEnd(SubSeq(s, 1, Len(s) - 1)) ELSE s

\* String.prototype.trim
trim(s) == trimEnd(trimStart(s))

\* the guard without state.isLoading
SendGuardMessageOnly(message) == message # MsgEmpty

\* handleSendMessage goes on: !(!message || state.isLoading)
SendGuard(message) == message # MsgEmpty /\ ~ client.isLoading

\* the sends with the mark that the chat shown has changed since they were
\* issued
Outdated(sends) == [i \in 1..Len(sends) |-> [sends[i] EXCEPT !.stale = TRUE]]

RemoveAt(q, i) == SubSeq(q, 1, i - 1) \o SubSeq(q, i + 1, Len(q))

\* handleSendMessage up to its await: the guard, state.isLoading,
\* addMessageToUI and api.sendMessage(message, state.currentChat)
handleSendMessage(value) ==
    /\ client.user # NoUser
    /\ client.attempts < MaxAttempts
    /\ LET message == trim(value)
           tried == [client EXCEPT !.attempts = @ + 1, !.input = value]
       IN client' =
            IF ~ SendGuard(message)
            THEN tried
            ELSE Requested([tried EXCEPT !.isLoading = TRUE, !.shown = @ + 1,
                                         !.sends = Append(@, [pc |-> "sendMessage",
                                                              thread |-> client.currentChat,
                                                              stale |-> FALSE])],
                           "/api/chat")
    /\ UNCHANGED <<backend, now, users, sessions, threads, messages, profiles, req, calls,
                   faults, last, hist, moods, topics, verifications>>

\* api.sendMessage of the i-th pending invocation settles.  A rejection goes
\* to catch and finally; an answer is shown, a first answer with a threadId
\* sets state.currentChat and awaits loadChats, any other goes to finally
sendMessageSettled(i, result) ==
    /\ i \in 1..Len(client.sends)
    /\ client.sends[i].pc = "sendMessage"
    /\ LET answered == [client EXCEPT !.shown = @ + 1]
       IN client' =
            IF result # NoThread /\ client.currentChat = NoThread
            THEN Requested([answered EXCEPT !.currentChat = result,
                                            !.sends[i].pc = "loadChats"],
                           "/api/chats")
            ELSE [answered EXCEPT !.isLoading = FALSE, !.sends = RemoveAt(@, i)]
    /\ UNCHANGED <<backend, now, users, sessions, threads, messages, profiles, req, calls,
                   faults, last, hist, moods, topics, verifications>>

\* loadChats of the i-th pending invocation returns (it catches its own
\* errors), and the invocation runs to its finally
loadChatsSettled(i) ==
    /\ i \in 1..Len(client.sends)
    /\ client.sends[i].pc = "loadChats"
    /\ client' = [client EXCEPT !.isLoading = FALSE, !.sends = RemoveAt(@, i)]
    /\ UNCHANGED <<backend, now, users, sessions, threads, messages, profiles, req, calls,
                   faults, last, hist, moods, topics, verifications>>

\* selectChat: state.currentChat, the history emptied, then
\* api.getChatMessages
selectChat(chatId) ==
    /\ client.user # NoUser
    /\ client' = Requested([client EXCEPT !.currentChat = chatId, !.shown = 0,
                                          !.sends = Outdated(@)],
                           "/api/chats/:id/messages")
    /\ UNCHANGED <<backend, now, users, sessions, threads, messages, profiles, req, calls,
                   faults, last, hist, moods, topics, verifications>>

startNewChat ==
    /\ client.user # NoUser
    /\ client' = [client EXCEPT !.currentChat = NoThread, !.shown = 0,
                                !.sends = Outdated(@)]
    /\ UNCHANGED <<backend, now, users, sessions, threads, messages, profiles, req, calls,
                   faults, last, hist, moods, topics, verifications>>

\* loadProfile: api.getProfile; the answer is the profile of state.user
loadProfile ==
    /\ client.user # NoUser
    /\ client' = Requested(client, "/api/profile")
    /\ UNCHANGED <<backend, now, users, sessions, threads, messages, profiles, req, calls,
                   faults, last, hist, moods, topics, verifications>>

\* the page is loaded again: the script starts from its initial state, new
\* FamiliaAIAPI() reads familia_token, initApp reads user_data and, with a
\* user, calls loadChats
ClientReload ==
    /\ LET loaded == [client EXCEPT !.token = client.familia_token,
                                    !.user = client.user_data, !.form2FA = FALSE,
                                    !.currentChat = NoThread, !.isLoading = FALSE,
                                    !.shown = 0, !.sends = <<>>]
       IN client' = IF loaded.user # NoUser THEN Requested(loaded, "/api/chats") ELSE loaded
    /\ UNCHANGED <<backend, now, users, sessions, threads, messages, profiles, req, calls,
                   faults, last, hist, moods, topics, verifications>>

\* handleLogout: api.logout and the reset of state.user, state.currentChat
\* and the history; state.isLoading and the pending invocations stay
handleLogout ==
    /\ client.user # NoUser
    /\ client' = [NoClient EXCEPT !.isLoading = client.isLoading,
                                  !.sends = Outdated(client.sends),
                                  !.attempts = client.attempts, !.input = client.input]
    /\ UNCHANGED <<backend, now, users, sessions, threads, messages, profiles, req, calls,
                   faults, last, hist, moods, topics, verifications>>

----------------------------------------------------------------------------
(* Specifications *)

\* the Worker routes that answer in one step
WRoutes ==
    \/ Quiet /\ \E path \in Paths, token \in ClientTokens : WOptions(path, token)
    \/ Quiet /\ \E token \in ClientTokens : WHealth(token)
    \/ Quiet /\ \E method \in Methods, path \in Paths, token \in ClientTokens, status \in {200, 400} :
          WPublic(method, path, token, status)
    \/ Quiet /\ \E method \in Methods, path \in Paths, token \in ClientTokens :
          WUnauthorized(method, path, token)
    \/ Quiet /\ \E method \in Methods, path \in Paths, token \in ClientTokens :
          WProfile(method, path, token)
    \/ Quiet /\ \E method \in Methods, path \in Paths, token \in ClientTokens :
          WAdmin(method, path, token)

\* what a login body can be
LoginBodies == {"ok", "missing-field", "bad-family-code", "bad-credentials"}

\* the logins around the token gate, their session insert going through
WSessions ==
    Quiet /\ \E u \in Users, cred \in LoginBodies,
       token \in ClientTokens : WLogin(u, cred, token, TRUE)

WReads ==
    \/ Quiet /\ \E token \in ClientTokens : WGetThreads(token)
    \/ Quiet /\ \E token \in ClientTokens, tid \in ClientThreadIds \ {NoThread} : WGetThread(token, tid)

\* a request rejected by the gates does not get to its threadId
WThreadIds(token, message) ==
    IF TokenGate(token) # "pass" THEN {NoThread}
    ELSE IF ChatGate(message, validateToken(token).user,
                     users[validateToken(token).user].limits) # "pass"
    THEN {NoThread}
    ELSE ClientThreadIds

WChat(S) ==
    \/ Quiet /\ \E r \in S, token \in ClientTokens, message \in Messages :
       \E threadId \in WThreadIds(token, message) :
          WChatFetch(r, token, message, threadId)
    \/ Quiet /\ \E r \in S, stored \in BOOLEAN : WResolveThread(r, stored)
    \/ Quiet /\ \E r \in S, stored \in BOOLEAN : WInsertUserMessage(r, stored)
    \/ Quiet /\ \E r \in S, reply \in AiReplies : WCallAI(r, reply)
    \/ Quiet /\ \E r \in S, stored \in BOOLEAN : WInsertAiMessage(r, stored)

\* the inputs that XChatStart reads: a rejected request does not get to its
\* threadId, and Math.random() is called only without one
XThreadIds(email, message) ==
    IF authMiddleware(email) = NoUser \/ message = MsgEmpty \/ XModeration[message]
    THEN {NoThread}
    ELSE ClientThreadIds

XNewIds(threadId) == IF threadId = NoThread THEN RandomIds ELSE {NoThread}

XChat(S) ==
    \/ Quiet /\ \E r \in S, email \in ClientEmails, message \in Messages :
       \E threadId \in XThreadIds(email, message) :
       \E newId \in XNewIds(threadId), stored \in BOOLEAN :
          XChatStart(r, email, message, threadId, newId, stored)
    \/ Quiet /\ \E r \in S, reply \in AiReplies, fail \in {"none", "insert", "log"} :
          XChatFinish(r, reply, fail)

\* the chat flow of either deployment, one call at a time
Serve ==
    \/ Tick(ChatMaxTime)
    \/ Quiet /\ \E token \in ClientTokens : WUnauthorized("POST", "/api/chat", token)
    \/ WChat({1})
    \/ XChat({1})

Next ==
    \/ Deliver
    \/ Serve

Spec == ChatInit /\ [][Next]_vars

\* the chat route of the Worker
QuotaServe ==
    \/ Quiet /\ \E token \in ClientTokens : WUnauthorized("POST", "/api/chat", token)
    \/ WChat({1})

QuotaNext ==
    \/ Deliver
    \/ QuotaServe

QuotaSpec == QuotaInit /\ [][QuotaNext]_vars

\* every route of the Worker around the token gate
RouteServe ==
    \/ Tick(MaxTime)
    \/ WSessions
    \/ WRoutes
    \/ WReads

RouteNext ==
    \/ Deliver
    \/ RouteServe

RouteSpec == Init /\ [][RouteNext]_vars

\* the admin routes of the Worker, for every assignment of roles
AdminServe ==
    \/ Tick(MaxTime)
    \/ Quiet /\ \E method \in AdminMethods, path \in AdminPaths, token \in ClientTokens :
          WUnauthorized(method, path, token)
    \/ Quiet /\ \E method \in AdminMethods, path \in AdminPaths, token \in ClientTokens :
          WAdmin(method, path, token)
    \/ Quiet /\ \E token \in ClientTokens, userId \in Users, update \in UserUpdates,
                    found \in BOOLEAN :
          WAdminUserPut(token, userId, update, found)

AdminNext ==
    \/ Deliver
    \/ AdminServe

AdminSpec == AdminInit /\ [][AdminNext]_vars

TopicNames == {topicKeywords[k].topic : k \in 1..Len(topicKeywords)}

\* chat turns of the Worker whose messages carry a mood or a topic
SideServe ==
    \/ Quiet /\ \E token \in ClientTokens, message \in SideMessages :
       \E threadId \in WThreadIds(token, message) :
          WChatFetch(1, token, message, threadId)
    \/ Quiet /\ \E stored \in BOOLEAN : WResolveThread(1, stored)
    \/ Quiet /\ \E stored \in BOOLEAN : WInsertUserMessage(1, stored)
    \/ Quiet /\ \E moodStored \in BOOLEAN, stored \in SUBSET TopicNames :
          WSideSignals(1, moodStored, stored)
    \/ Quiet /\ \E reply \in AiReplies : WCallAI(1, reply)
    \/ Quiet /\ \E stored \in BOOLEAN : WInsertAiMessage(1, stored)

SideNext ==
    \/ Deliver
    \/ SideServe

SideSpec == SideInit /\ [][SideNext]_vars

\* a user registers, verifies the email and logs in, while the administrator
\* can update user rows
VerifyServe ==
    \/ Tick(CodeMaxTime)
    \/ Quiet /\ \E u \in Users, body \in RegisterBodies :
       \E code \in NewCodes(body = "ok" /\ users[u].status = "absent"),
          inserted \in BOOLEAN, stored \in BOOLEAN :
          WRegister(u, body, NoToken, code, inserted, stored)
    \/ Quiet /\ \E userId \in Users \cup {NoUser}, code \in Codes \cup {NoCode},
                    fail \in {"none", "update", "delete"} :
          WVerifyEmail(userId, code, NoToken, fail)
    \/ Quiet /\ \E userId \in Users \cup {NoUser} :
       \E code \in NewCodes(userId # NoUser /\ users[userId].status = "pending"),
          stored \in BOOLEAN :
          WResend(userId, NoToken, code, stored)
    \/ Quiet /\ \E u \in Users, cred \in LoginBodies, stored \in BOOLEAN :
          WLogin(u, cred, NoToken, stored)
    \/ Quiet /\ \E token \in ClientTokens, userId \in Users, update \in UserUpdates,
                    found \in BOOLEAN :
          WAdminUserPut(token, userId, update, found)

VerifyNext ==
    \/ Deliver
    \/ VerifyServe

VerifySpec == VerifyInit /\ [][VerifyNext]_vars

\* the mood scorer applied to each message of MoodMessages
MoodNext ==
    \E moodStored \in BOOLEAN, stored \in SUBSET TopicNames :
        WSideSignals(1, moodStored, stored)

MoodSpec == MoodInit /\ [][MoodNext]_vars

\* the AI provider answering with a text, or failing
RaceReplies == {a \in AiReplies : a.kind \in {"text", "throw"}}

\* the chat flow of either deployment with two calls in flight at once, the
\* storage working; a call is answered before the next step is taken
RaceServe ==
    \/ Quiet /\ \E r \in Slots, token \in ClientTokens, message \in Messages :
       \E threadId \in WThreadIds(token, message) :
          WChatFetch(r, token, message, threadId)
    \/ Quiet /\ \E r \in Slots : WResolveThread(r, TRUE)
    \/ Quiet /\ \E r \in Slots : WInsertUserMessage(r, TRUE)
    \/ Quiet /\ \E r \in Slots, reply \in RaceReplies : WCallAI(r, reply)
    \/ Quiet /\ \E r \in Slots : WInsertAiMessage(r, TRUE)
    \/ Quiet /\ \E r \in Slots, email \in ClientEmails, message \in Messages :
       \E threadId \in XThreadIds(email, message) :
       \E newId \in XNewIds(threadId) :
          XChatStart(r, email, message, threadId, newId, TRUE)
    \/ Quiet /\ \E r \in Slots, reply \in RaceReplies : XChatFinish(r, reply, "none")

RaceNext ==
    \/ Deliver
    \/ RaceServe

RaceSpec == ChatInit /\ [][RaceNext]_vars

XReads ==
    \/ Quiet /\ \E email \in ClientEmails : XGetChats(email)
    \/ Quiet /\ \E email \in ClientEmails, id \in ClientThreadIds \ {NoThread} : XGetChat(email, id)

\* the routes of the Express server behind authMiddleware, and the
\* registration that adds users
AuthServe ==
    \/ Quiet /\ \E email \in Users, secret \in BOOLEAN, inserted \in BOOLEAN :
          XRegister(email, secret, inserted)
    \/ Quiet /\ \E email \in ClientEmails : XUserMe(email)
    \/ Quiet /\ \E email \in ClientEmails : XPutPreferences(email)
    \/ Quiet /\ \E email \in ClientEmails, route \in XAdminRoutes, done \in BOOLEAN :
          XAdmin(email, route, done)
    \/ Quiet /\ calls < MaxAuthCalls /\ \E email \in ClientEmails, message \in Messages :
       \E threadId \in XThreadIds(email, message) :
       \E newId \in XNewIds(threadId) :
          XChatStart(1, email, message, threadId, newId, TRUE)
    \/ Quiet /\ \E reply \in RaceReplies : XChatFinish(1, reply, "none")
    \/ XReads

AuthNext ==
    \/ Deliver
    \/ AuthServe

AuthSpec == XAuthInit /\ [][AuthNext]_vars

\* chat turns and reads of either deployment, one call at a time, the storage
\* working
ReadServe ==
    \/ Quiet /\ \E token \in ClientTokens, message \in Messages :
       \E threadId \in WThreadIds(token, message) :
          WChatFetch(1, token, message, threadId)
    \/ Quiet /\ WResolveThread(1, TRUE)
    \/ Quiet /\ WInsertUserMessage(1, TRUE)
    \/ Quiet /\ \E reply \in RaceReplies : WCallAI(1, reply)
    \/ Quiet /\ WInsertAiMessage(1, TRUE)
    \/ Quiet /\ \E email \in ClientEmails, message \in Messages :
       \E threadId \in XThreadIds(email, message) :
       \E newId \in XNewIds(threadId) :
          XChatStart(1, email, message, threadId, newId, TRUE)
    \/ Quiet /\ \E reply \in RaceReplies : XChatFinish(1, reply, "none")
    \/ WReads
    \/ XReads

ReadNext ==
    \/ Deliver
    \/ ReadServe

ReadSpec == ChatInit /\ [][ReadNext]_vars

\* the browser against a backend whose answers are arbitrary
ClientNext ==
    \/ \E result \in LoginResults : handleLogin(result)
    \/ \E result \in LoginResults : handle2FA(result)
    \/ \E value \in InputValues : handleSendMessage(value)
    \/ \E i \in 1..MaxAttempts, result \in ChatResults : sendMessageSettled(i, result)
    \/ \E i \in 1..MaxAttempts : loadChatsSettled(i)
    \/ \E chatId \in 1..MaxCalls : selectChat(chatId)
    \/ startNewChat
    \/ loadProfile
    \/ ClientReload
    \/ handleLogout

ClientSpec == Init /\ [][ClientNext]_vars

Idle == \A r \in Slots : ~ InFlight(r)

\* the life of a session: logins, profile and settings requests and chat
\* calls of the Worker, one request at a time
LifeServe ==
    \/ Tick(ChatMaxTime)
    \/ Quiet /\ Idle /\ \E u \in Users, cred \in LoginBodies, token \in ClientTokens,
                            stored \in BOOLEAN :
          WLogin(u, cred, token, stored)
    \/ Quiet /\ Idle /\ \E method \in Methods, path \in Paths, token \in ClientTokens :
          WProfile(method, path, token)
    \/ WChat({1})

LifeNext ==
    \/ Deliver
    \/ LifeServe

LifeSpec == Init /\ [][LifeNext]_vars

----------------------------------------------------------------------------
(* Properties *)

\* the tables that hold chat, profile, settings and admin data
DataTables == {"chat_threads", "chat_messages", "user_profiles", "user_settings", "admin"}

\* the response l answers a POST /api/chat
ChatResponse(l) == l.method = "POST" /\ l.path = "/api/chat"

ChatSuccess(l) == ChatResponse(l) /\ l.status = 200

\* this step answers a chat request
NewChatResponse == last = NoResp /\ last' # NoResp /\ ChatResponse(last')

\* the message contains one of the terms, compared case-insensitively
ContainsTerm(terms, message) ==
    \E k \in 1..Len(terms) : includes(toLowerCase(message), toLowerCase(terms[k]))

\* per backend, the request bodies that contain a term of its blocklist
Blocked ==
    [b \in {"worker", "express"} |->
        {m \in Messages : ContainsTerm(IF b = "worker" THEN blockedTerms ELSE seedBlocked, m)}]

\* the stored limits of u are at or over the daily cap
OverQuota(u) ==
    /\ u # NoUser
    /\ users[u].limits # NoLimits
    /\ users[u].limits.used_today >= users[u].limits.daily_messages

\* the message rows written by the chat call that `last` answers, in
\* insertion order
CallRows == SelectSeq(messages, LAMBDA m : m.call = last.call)

\* the token of the response is missing, unknown or expired
BadToken(l) ==
    \/ l.token = NoToken
    \/ ~ HasSession(l.token)
    \/ l.start > SessionOf(l.token).expires_at

\* C1: on a protected request of the Worker, a token whose session expires
\* later than the current time is accepted and the request runs as the user
\* the session is bound to; a token whose session has expired is answered 401
\* (invalid or expired token) and runs as nobody.
C1_TokenValidation ==
    (last.backend = "worker" /\ Route(last.method, last.path) = "protected"
        /\ HasSession(last.token)) =>
        /\ last.start < SessionOf(last.token).expires_at =>
              last.status # 401 /\ last.user = SessionOf(last.token).user_id
        /\ last.start > SessionOf(last.token).expires_at =>
              last.status = 401 /\ last.error = "TokenInvalid" /\ last.user = NoUser

\* a protected request with an expired token has been answered 401
C1_Witness ==
    /\ last.backend = "worker"
    /\ Route(last.method, last.path) = "protected"
    /\ HasSession(last.token)
    /\ last.start > SessionOf(last.token).expires_at
    /\ last.status = 401

\* C2: the Worker serves a request that carries no valid token only if it is
\* an OPTIONS preflight or a public route; every other request with a missing,
\* unknown or expired token is answered 401 with an error and has touched no
\* chat, profile, settings or admin table.  OPTIONS is answered 204 and the
\* health check 200 whatever the token.
C2_AuthBoundary ==
    last.backend = "worker" =>
        /\ (Route(last.method, last.path) = "protected" /\ BadToken(last)) =>
              /\ last.status = 401
              /\ last.error \in {"TokenRequired", "TokenInvalid"}
              /\ last.touched \cap DataTables = {}
        /\ Route(last.method, last.path) = "options" => last.status = 204
        /\ Route(last.method, last.path) = "health" => last.status = 200

\* a profile update with an unknown token has been answered 401
C2_Witness ==
    /\ last.backend = "worker"
    /\ last.method = "PUT"
    /\ last.path = "/api/profile"
    /\ last.token = BogusToken
    /\ last.status = 401

C4_Moderation ==
    [][/\ (NewChatResponse /\ last'.status # 401 /\ last'.msg \in Blocked[backend]) =>
              /\ last'.status = 400
              /\ last'.error = "ContentRejected"
              /\ UNCHANGED <<threads, messages, req, calls>>
       /\ \A r \in Slots :
              req'[r].pc # "idle" => req'[r].msg \notin Blocked[backend]]_vars

\* a message with the term in mixed case has been rejected while rows exist
C4_Witness ==
    /\ ChatResponse(last)
    /\ last.error = "ContentRejected"
    /\ last.msg = MsgShout
    /\ Len(messages) > 0

\* C5 as stated: in a series of non-overlapping chat calls of one user of the
\* Worker, at most daily_messages - used_today(initial) calls succeed (here
\* with the storage and the AI provider never failing).
C5_DailyCap ==
    (backend = "worker" /\ faults = 0) =>
        \A u \in Users : hist[u].ok <= MaxDaily - LimitsOpen[u].used_today

\* C6 as stated: when a chat call has returned success with thread T, every
\* reading of T's messages by creation time has the call's user message
\* immediately followed by the call's assistant message, both stamped no
\* earlier than the start of the call.
C6_RoundTrip ==
    ChatSuccess(last) =>
        \A q \in ThreadMessages(last.thread) :
            \E i \in DOMAIN q :
                /\ i + 1 \in DOMAIN q
                /\ messages[q[i]].call = last.call
                /\ messages[q[i]].role = "user"
                /\ messages[q[i]].content = last.msg
                /\ messages[q[i]].created_at >= last.start
                /\ messages[q[i + 1]].call = last.call
                /\ messages[q[i + 1]].role = "assistant"
                /\ messages[q[i + 1]].content = last.response
                /\ messages[q[i + 1]].created_at >= last.start

C8_ThreadOwnership ==
    backend = "worker" =>
        /\ \A i \in 1..Len(messages) :
              /\ messages[i].thread_id \in ThreadIds
              /\ ThreadRow(messages[i].thread_id).user_id = messages[i].user_id
        /\ (/\ ChatSuccess(last)
            /\ last.threadId # NoThread
            /\ \/ last.threadId \notin ThreadIds
               \/ ThreadRow(last.threadId).user_id # last.user
               \/ ThreadRow(last.threadId).call = last.call) =>
              /\ last.thread \in ThreadIds
              /\ ThreadRow(last.thread).call = last.call
              /\ ThreadRow(last.thread).user_id = last.user
              /\ \A i \in 1..Len(messages) :
                    messages[i].call = last.call => messages[i].thread_id = last.thread

\* a call given another user's thread has succeeded on a new thread, with
\* both of its rows there
C8_Witness ==
    /\ backend = "worker"
    /\ ChatSuccess(last)
    /\ last.threadId \in ThreadIds
    /\ ThreadRow(last.threadId).user_id # last.user
    /\ last.thread # last.threadId
    /\ Len(CallRows) = 2

\* C9 as stated: a chat call that returns success has written exactly two
\* rows, the user row with the request message and then the assistant row
\* with the returned text, both in the returned thread; a call that does not
\* return success has written no assistant row.
C9_TwoMessages ==
    (ChatResponse(last) /\ last.call # 0) =>
        IF last.status = 200
        THEN /\ Len(CallRows) = 2
             /\ CallRows[1].role = "user"
             /\ CallRows[1].content = last.msg
             /\ CallRows[1].thread_id = last.thread
             /\ CallRows[2].role = "assistant"
             /\ CallRows[2].content = last.response
             /\ CallRows[2].thread_id = last.thread
        ELSE \A i \in 1..Len(CallRows) : CallRows[i].role # "assistant"

\* C10: a session row appears only in a successful login, with expires_at 24
\* hours after the time of that login; no step changes the expires_at of a
\* session that is there (a login, a profile or settings request, a step of a
\* chat call, the clock).
C10_SessionLifetime ==
    [][/\ \A s \in sessions : \A t \in sessions' :
              t.token = s.token => t.expires_at = s.expires_at
       /\ \A t \in sessions' :
              (\A s \in sessions : s.token # t.token) =>
                  /\ t.expires_at = now + SessionHours
                  /\ last'.status = 200
                  /\ Route(last'.method, last'.path) = "login"]_vars

\* a session issued earlier is still there, with its expiry, after a chat
\* turn and a profile or settings update
C10_Witness ==
    /\ \E s \in sessions : now > s.created_at /\ s.expires_at = s.created_at + SessionHours
    /\ Len(messages) > 0
    /\ profiles # {}

\* the response answers an admin endpoint reached with a valid token
AdminResponse(l) ==
    /\ l.backend = "worker"
    /\ Route(l.method, l.path) = "protected"
    /\ ProtectedRoute(l.method, l.path) = "admin"
    /\ AdminRoute(l.method, l.path) # "none"
    /\ l.user # NoUser

\* C11 as stated: an admin endpoint is served (not answered 403) to an
\* authenticated user whose role is admin or parent, and answered 403 to an
\* authenticated user of any other role.
C11_AdminRoles ==
    AdminResponse(last) =>
        (last.status = 200 <=> users[last.user].role \in {"admin", "parent"})

\* C12 as stated: after a successful login the client has stored the token
\* the backend returned, and every API request it sends from then until
\* logout carries that token in X-Family-Token; after logout (as before any
\* login) no request carries a token.
C12_ClientToken ==
    /\ client.issued # NoToken =>
          /\ client.familia_token = client.issued
          /\ client.endpoint \notin {"-", "/api/login", "/api/verify-2fa"} =>
                client.header = client.issued
    /\ client.issued = NoToken => client.header = NoToken

\* C13 as stated: in the Express backend every message row a chat call
\* writes is in a thread whose user_id is the requesting user's id.
C13_ExpressOwnership ==
    (backend = "express" /\ ChatResponse(last) /\ last.call # 0) =>
        \A i \in 1..Len(CallRows) :
            ThreadRow(CallRows[i].thread_id).user_id = last.user

\* the stored limits of the user of response l do not pass validateUserLimits
QuotaShut(l) == ~ validateUserLimits(l.user, users[l.user].limits)

C15_CounterFrame ==
    [][backend = "worker" =>
          /\ users' = users
          /\ NewChatResponse =>
                IF last'.status = 200
                THEN /\ \E r \in Slots : req[r].pc = "aiMsg" /\ req[r].call = last'.call
                     /\ last'.limits = updateMessageCount(users[last'.user].limits)
                ELSE /\ last'.status \in {400, 401, 429, 500}
                     /\ last'.limits = IF last'.status = 401 THEN NoLimits
                                       ELSE users[last'.user].limits]_vars

\* a call answered 500 after its user message was stored, with used_today
\* as loaded
C15_Witness ==
    /\ last.backend = "worker"
    /\ ChatResponse(last)
    /\ last.status = 500
    /\ Len(CallRows) = 1
    /\ CallRows[1].role = "user"
    /\ last.limits = users[last.user].limits
    /\ last.limits # NoLimits

\* C16: in the Worker a chat call in which a mood insert or a topic upsert
\* failed, and nothing else ever failed, is answered 200 with the text of the
\* AI, with its user row and its assistant row stored; the answer names no
\* error.
C16_SideSignals ==
    (last.backend = "worker" /\ ChatResponse(last) /\ last.side > 0
        /\ faults = last.side) =>
        /\ last.status = 200
        /\ last.error = "none"
        /\ last.response \in AiTexts
        /\ Len(CallRows) = 2
        /\ CallRows[2].role = "assistant"
        /\ CallRows[2].content = last.response

\* a call whose topic upsert failed has been answered 200
C16_Witness ==
    /\ last.backend = "worker"
    /\ ChatResponse(last)
    /\ last.side > 0
    /\ last.msg = MsgGame
    /\ topics = {}
    /\ Len(moods) = 1
    /\ last.status = 200

\* the chat call that `last` answers has stored a row with this role
Stored(role) == \E i \in 1..Len(CallRows) : CallRows[i].role = role

\* C17 as stated: a chat call whose user-message insert or assistant-message
\* insert failed is not answered 200 with a response; it is answered 500 with
\* the error envelope.
C17_PersistenceFailure ==
    (ChatResponse(last) /\ last.call # 0
        /\ ~ (Stored("user") /\ Stored("assistant"))) =>
        /\ last.status = 500
        /\ last.error = "Error"
        /\ last.response = NoText

\* C18 as stated: in the Worker a chat call whose AI reply carried no
\* candidate text, be it a payload without candidates or a malformed one, is
\* answered 200 with the fixed fallback string as response.
C18_Original ==
    (last.backend = "worker" /\ ChatResponse(last)
        /\ last.reply \in {"none", "unparsable"}) =>
        /\ last.status = 200
        /\ last.response = FallbackText

\* C18: in the Worker a chat call whose AI reply was a JSON payload without
\* candidate text is answered 200 with the fixed fallback string as response;
\* every assistant row of the call holds that string, and the row is stored
\* when the missing text is the only failure of the run.  A call whose AI
\* reply was not JSON, or whose AI call failed, is answered 500 without a
\* response and has stored no assistant row.
C18_WorkerFallback ==
    (last.backend = "worker" /\ ChatResponse(last)) =>
        /\ last.reply = "none" =>
              /\ last.status = 200
              /\ last.response = FallbackText
              /\ \A i \in 1..Len(CallRows) :
                    CallRows[i].role = "assistant" => CallRows[i].content = FallbackText
              /\ faults = 1 => Stored("assistant")
        /\ last.reply \in {"throw", "unparsable"} =>
              /\ last.status = 500
              /\ last.response = NoText
              /\ ~ Stored("assistant")

\* a call without candidate text has been answered with the fallback string
\* and its assistant row holds it
C18_Witness ==
    /\ last.backend = "worker"
    /\ ChatResponse(last)
    /\ last.reply = "none"
    /\ last.response = FallbackText
    /\ Len(CallRows) = 2
    /\ CallRows[2].content = FallbackText

\* C19: in the Express backend a chat call whose AI call failed (it threw,
\* its reply could not be read, or it gave no text) is answered 500 with the error envelope, in a step that
\* writes no message and leaves every thread (so its last_message_at) as it
\* was, while the user message of the call stays stored.
C19_ExpressAiFailure ==
    [][(NewChatResponse /\ backend = "express"
            /\ last'.reply \in {"throw", "unparsable", "none"}) =>
          /\ last'.status = 500
          /\ last'.error = "Error"
          /\ last'.response = NoText
          /\ messages' = messages
          /\ threads' = threads
          /\ \E i \in 1..Len(messages') :
                /\ messages'[i].call = last'.call
                /\ messages'[i].role = "user"
                /\ messages'[i].content = last'.msg
          /\ \A i \in 1..Len(messages') :
                messages'[i].call = last'.call => messages'[i].role # "assistant"]_vars

\* a call on an existing thread has failed at the AI call, with its user
\* message stored
C19_Witness ==
    /\ last.backend = "express"
    /\ ChatResponse(last)
    /\ last.reply = "throw"
    /\ last.status = 500
    /\ last.threadId # NoThread
    /\ Len(CallRows) = 1
    /\ CallRows[1].role = "user"
    /\ ThreadRow(last.thread).last_message_at = ThreadRow(last.thread).created_at

\* a second call of the same caller on the thread of the call in slot r is
\* taken in flight
OverlapStart(r) ==
    \E q \in Slots, message \in Messages :
        \/ /\ WChatFetch(q, req[r].token, message, req[r].thread)
           /\ req'[q].pc = "thread"
        \/ /\ XChatStart(q, req[r].user, message, req[r].thread, NoThread, TRUE)
           /\ req'[q].pc = "ai"

\* C20: appends to a thread are not serialized.  Whenever a call has written
\* its user message and awaits the AI, a second call on the same thread can
\* be taken in flight (in Express that very step stores its user message),
\* and a call of the Worker that is about to write its user message can do
\* so whatever the other call is at.
C20_NotSerialized ==
    \A r \in Slots :
        /\ (Quiet /\ req[r].pc = "ai" /\ calls < MaxCalls /\ ~ Idle
                /\ \E q \in Slots : ~ InFlight(q)) =>
              ENABLED OverlapStart(r)
        /\ (Quiet /\ req[r].pc = "userMsg") => ENABLED WInsertUserMessage(r, TRUE)

\* two calls on one thread have both succeeded, and the thread holds both
\* user messages before either assistant message
C20_Witness ==
    /\ Len(messages) = 4
    /\ \A i \in 1..4 : messages[i].thread_id = messages[1].thread_id
    /\ messages[1].role = "user"
    /\ messages[2].role = "user"
    /\ messages[1].call # messages[2].call
    /\ messages[3].role = "assistant"
    /\ messages[4].role = "assistant"
    /\ \E u \in Users : hist[u].ok = 2 /\ hist[u].overlap

\* a second call of the caller of slot r passes the gates and is taken in
\* flight
SecondPass(r) ==
    \E q \in Slots, message \in Messages :
        /\ WChatFetch(q, req[r].token, message, NoThread)
        /\ req'[q].pc = "thread"

\* C21: the quota check of the Worker is read-then-act.  A call in flight
\* holds the limits it read from the user row; while a call of a user whose
\* stored used_today is daily_messages - 1 is in flight, a second call of that
\* user passes the quota gate too, so that both turns can succeed and the
\* successful turns exceed what the cap leaves.
C21_SoftQuota ==
    \A r \in Slots :
        (backend = "worker" /\ InFlight(r)) =>
            /\ req[r].limits = users[req[r].user].limits
            /\ (/\ Quiet
                /\ calls < MaxCalls
                /\ \E q \in Slots : ~ InFlight(q)
                /\ req[r].limits.used_today = req[r].limits.daily_messages - 1) =>
                  ENABLED SecondPass(r)

\* two overlapping calls of the user who was one message below the cap have
\* both been answered 200
C21_Witness ==
    /\ backend = "worker"
    /\ users["u1"].limits.used_today = users["u1"].limits.daily_messages - 1
    /\ hist["u1"].overlap
    /\ hist["u1"].ok = 2
    /\ ChatSuccess(last)
    /\ last.user = "u1"
    /\ users["u1"].limits.used_today + hist["u1"].ok > users["u1"].limits.daily_messages

\* the fraction <<numerator, denominator>> lies in [-1, 1]
InUnitRange(score) == 0 - score[2] <= score[1] /\ score[1] <= score[2]

\* C22 as stated: for every message the score that detectMood gives lies in
\* [-1, 1] (the hits of the winning list never exceed the number of
\* space-separated words of the message); the label is positive exactly when
\* the positive hits outnumber the negative ones, negative in the reverse
\* case, and there is no result on a tie.
C22_MoodScore ==
    (req[1].pc = "ai" /\ req[1].side = 0 /\ req[1].msg \in MoodMessages) =>
        LET positiveCount == Hits(positiveWords, req[1].msg)
            negativeCount == Hits(negativeWords, req[1].msg)
        IN /\ moods = <<>> <=> positiveCount = negativeCount
           /\ \A i \in 1..Len(moods) :
                 /\ moods[i].detected_mood = "positive" <=> positiveCount > negativeCount
                 /\ moods[i].detected_mood = "negative" <=> negativeCount > positiveCount
                 /\ InUnitRange(moods[i].mood_score)
                 /\ positiveCount <= SplitLength(req[1].msg)
                 /\ negativeCount <= SplitLength(req[1].msg)

\* user_mood_tracking and topic_evolution without their timestamps
MoodsUntimed ==
    [i \in 1..Len(moods) |->
        [user_id |-> moods[i].user_id, mood_score |-> moods[i].mood_score,
         confidence |-> moods[i].confidence, detected_mood |-> moods[i].detected_mood]]

TopicsUntimed ==
    {[topic |-> t.topic, mentions |-> t.mentions, user_id |-> t.user_id] : t \in topics}

\* C23 as stated: the mood and topic side effects of a chat turn are
\* idempotent.  When the side writes of a message of a user have all been
\* stored and no other side write has come since, the side writes of the same
\* message of the same user, all stored, leave user_mood_tracking and
\* topic_evolution as they were, timestamps aside.
C23_Idempotent ==
    [][\A r \in Slots :
          (/\ req[r].pc = "side"
           /\ req'[r].pc = "ai"
           /\ req'[r].side = 0
           /\ hist[req[r].user].signals = req[r].msg) =>
              /\ MoodsUntimed' = MoodsUntimed
              /\ TopicsUntimed' = TopicsUntimed]_vars

\* the rows with this role among the first n rows written to thread t
RowsOf(t, role, n) ==
    {i \in 1..n : messages[i].thread_id = t /\ messages[i].role = role}

\* C24 as stated: in either backend, calls that fail midway included, every
\* prefix of the messages of a thread in write order holds at least as many
\* user messages as assistant messages.
C24_PrefixOrder ==
    \A n \in 1..Len(messages) :
        \A t \in {messages[i].thread_id : i \in 1..n} :
            Cardinality(RowsOf(t, "user", n)) >= Cardinality(RowsOf(t, "assistant", n))

ThreadListPaths == {"/api/chat/threads", "/api/chats"}

ThreadReadPaths == {"/api/chat/thread/", "/api/chats/:id"}

\* C25 as stated: the thread list returned to a user holds only threads whose
\* user_id is that user's id, and the messages of a thread are returned only
\* when the thread belongs to the requesting user.
C25_ReadIsolation ==
    (last.method = "GET" /\ last.status = 200) =>
        /\ last.path \in ThreadListPaths =>
              \A i \in DOMAIN last.rows : threads[last.rows[i]].user_id = last.user
        /\ (last.path \in ThreadReadPaths /\ last.rows # <<>>) =>
              ThreadRow(last.threadId).user_id = last.user

\* this step answers a login
LoginStep == last = NoResp /\ last' # NoResp /\ Route(last'.method, last'.path) = "login"

\* the login gate: a login is answered 200 only with a complete body, the
\* family code and the credentials of an active user; then the session rows
\* that appear are rows of that user and last_login is the time of the login.
\* Every other login is answered 400, 401 or 403 and changes neither sessions
\* nor users; no other step adds a session or moves the last_login of a user
\* row that is there
LoginGate ==
    /\ LoginStep =>
          /\ last'.status = 200 <=> last'.error = "none"
          /\ last'.status = 200 =>
                /\ users[last'.user].status = "active"
                /\ \A s \in sessions' \ sessions : s.user_id = last'.user
                /\ users'[last'.user].last_login = now
          /\ last'.status # 200 =>
                /\ last'.status = 400 <=> last'.error \in {"FieldsRequired", "FamilyCodeInvalid"}
                /\ last'.status = 401 <=> last'.error = "CredentialsInvalid"
                /\ last'.status = 403 <=> last'.error = "NotVerified"
                /\ sessions' = sessions
                /\ users' = users
    /\ ~ LoginStep =>
          /\ sessions' = sessions
          /\ \A u \in Users :
                users[u].status # "absent" => users'[u].last_login = users[u].last_login

\* C26 as stated: login issues a session only to an active user with the
\* family code and the credentials, every other login changes nothing, and a
\* user holds a session only after verify-email has verified the email of
\* that user.
C26_Original ==
    [][/\ LoginGate
       /\ \A s \in sessions' : users'[s.user_id].email_verified]_vars

\* C26: login issues a session only to an active user with the family code
\* and the credentials, and every other login (400, 401, 403) changes neither
\* sessions nor last_login.  The status of a user becomes active only in a
\* verify-email answered 200 on a code of that user that has not expired, or
\* in an update of the user row by an administrator.
C26_LoginGate ==
    [][/\ LoginGate
       /\ \A u \in Users :
             (users[u].status # "active" /\ users'[u].status = "active") =>
                 \/ /\ last'.path = "/api/verify-email"
                    /\ last'.status = 200
                    /\ last'.user = u
                    /\ \E v \in verifications : v.user_id = u /\ now <= v.expires_at
                 \/ /\ last'.path = "/api/admin/user/"
                    /\ last'.status = 200
                    /\ isAdmin(users[last'.user])]_vars

\* u1 has registered, verified the email with the code and logged in
C26_Witness ==
    /\ Route(last.method, last.path) = "login"
    /\ last.status = 200
    /\ last.user = "u1"
    /\ users["u1"].email_verified
    /\ \E s \in sessions : s.user_id = "u1"

\* the step is one of the Express server answering on a path out of paths, or
\* taking a chat call in
XStepOn(paths) ==
    /\ backend = "express"
    /\ req[1].pc = "idle"
    /\ \/ last' # NoResp /\ last'.path \in paths
       \/ last' = NoResp /\ "/api/chat" \in paths /\ req'[1].pc # "idle"

\* a step of a handler behind authMiddleware alone, the request carrying the
\* header email
AuthHandler(email) ==
    \/ XStepOn({"/api/user/me"}) /\ XUserMe(email)
    \/ XStepOn({"/api/user/preferences"}) /\ XPutPreferences(email)
    \/ XStepOn({"/api/chats"}) /\ XGetChats(email)
    \/ XStepOn({"/api/chats/:id"}) /\ \E id \in ThreadIds : XGetChat(email, id)
    \/ XStepOn({"/api/chat"}) /\ \E message \in Messages :
       \E threadId \in XThreadIds(email, message) :
       \E newId \in XNewIds(threadId) :
          XChatStart(1, email, message, threadId, newId, TRUE)

\* a step of a handler behind adminMiddleware as well
AdminHandler(email) ==
    XStepOn({route[2] : route \in XAdminRoutes}) /\
        \E route \in XAdminRoutes, done \in BOOLEAN : XAdmin(email, route, done)

\* the user a request with this header runs as, NoUser when there is none
RunsAs(email) ==
    LET e == IF email = NoUser THEN adminEmail ELSE email
    IN IF e \in Users /\ users[e].status # "absent" THEN e ELSE NoUser

\* the step answered 401 and did nothing else
Answered401 ==
    /\ last'.status = 401
    /\ last'.user = NoUser
    /\ last'.touched = {}
    /\ UNCHANGED <<users, threads, messages, profiles, req, calls>>

\* the step ran with req.user = user
RanWith(user) ==
    /\ last'.status # 401
    /\ last' # NoResp => last'.user = user
    /\ req' # req => req'[1].user = user

Limitless(limits) ==
    limits = NoLimits \/ limits.used_today = Missing \/ limits.daily_messages = Missing

\* a chat call of the Worker from a session's user whose row has no usable
\* limits is answered
LimitlessAnswered ==
    /\ NewChatResponse
    /\ last'.backend = "worker"
    /\ ~ BadToken(last')
    /\ Limitless(users[last'.user].limits)

\* no thread and no message belongs to a call of a user without usable limits
NothingOfLimitless ==
    /\ \A i \in 1..Len(threads) : ~ Limitless(users[threads[i].user_id].limits)
    /\ \A r \in Slots : InFlight(r) => ~ Limitless(users[req[r].user].limits)

SendsInFlight(c) == {i \in 1..Len(c.sends) : c.sends[i].pc = "sendMessage"}

\* the step is an attempt to send made while isLoading was true, or with a
\* message that is empty once trimmed
RefusedAttempt ==
    /\ client'.attempts = client.attempts + 1
    /\ client.isLoading \/ trim(client'.input) = MsgEmpty

\* the step changed nothing but the record of the attempt
NoSendEffect == client' = [client EXCEPT !.attempts = @ + 1, !.input = client'.input]

\* an invocation of handleSendMessage returned in the step
SendReturned ==
    /\ Len(client'.sends) < Len(client.sends)
    /\ \E i \in 1..MaxAttempts, result \in ChatResults :
          sendMessageSettled(i, result) \/ loadChatsSettled(i)

\* C29 as stated: state.isLoading is true exactly while a sendMessage
\* request is in flight, at most one chat request is in flight, a send
\* attempted while isLoading is true or with an empty message has no effect,
\* and isLoading is false after a send completes.
C29_Original ==
    [][/\ client'.isLoading <=> SendsInFlight(client') # {}
       /\ Cardinality(SendsInFlight(client')) <= 1
       /\ RefusedAttempt => NoSendEffect
       /\ SendReturned => ~ client'.isLoading]_vars

\* C29: state.isLoading is true from the moment handleSendMessage accepts a
\* send until that invocation returns, that is while its sendMessage request
\* is in flight and, after the first answer of a new chat, while the chat
\* list is reloaded; so at most one chat request is in flight at any time, a
\* send attempted while isLoading is true (or with a message that is empty
\* once trimmed) has no UI or network effect, and isLoading is false again
\* when the invocation returns, whether the send succeeded or failed.
C29_SendGuard ==
    [][/\ client'.isLoading <=> client'.sends # <<>>
       /\ SendsInFlight(client') # {} => client'.isLoading
       /\ Len(client'.sends) <= 1
       /\ RefusedAttempt => NoSendEffect
       /\ SendReturned => ~ client'.isLoading]_vars

\* a second send was attempted, and refused, while the chat list was being
\* reloaded after the first answer
C29_Witness ==
    /\ client.isLoading
    /\ Len(client.sends) = 1
    /\ client.sends[1].pc = "loadChats"
    /\ SendsInFlight(client) = {}
    /\ client.attempts = 2
    /\ client.shown = 2
    /\ trim(client.input) # MsgEmpty

\* the answer of a send issued from the chat shown sets state.currentChat
FreshBinding ==
    /\ client.currentChat = NoThread
    /\ \E i \in 1..MaxAttempts, result \in ChatResults :
          /\ sendMessageSettled(i, result)
          /\ ~ client.sends[i].stale
          /\ client'.currentChat = result

\* C30 as stated: state.currentChat is set from a chat response only when it
\* is null and only to the threadId of a send issued from the chat currently
\* shown; every send carries the current value; the answer of a send that
\* was in flight when startNewChat was invoked does not bind the new chat.
C30_ThreadBinding ==
    [][/\ client'.currentChat # client.currentChat =>
            \/ startNewChat
            \/ \E chatId \in 1..MaxCalls : selectChat(chatId)
            \/ handleLogout
            \/ ClientReload
            \/ FreshBinding
       /\ Len(client'.sends) > Len(client.sends) =>
            client'.sends[Len(client'.sends)].thread = client.currentChat]_vars

====
